---- MODULE Spec2Model ----
(***************************************************************************)
(* Model of the Nexus session server (src/nexus/network/server.py) hosting *)
(* the tic-tac-toe game state (src/examples/tic-tac-toe/tic_tac_toe.py).   *)
(*                                                                         *)
(* The server is one asyncio event loop; a command is handled by           *)
(* handle_connection -> handle_command -> create_game / join_game / ...    *)
(* Every action below is one such handling, run to completion, including   *)
(* the exception handlers of handle_connection.                            *)
(*                                                                         *)
(* Python objects: a NexusPlayer is a mutable dataclass compared by value  *)
(* (id, name, game_id, data, connected, last_seen).  last_seen is          *)
(* time.time() at construction, so two records built at different moments *)
(* are never equal, and a record is an object identified by its id and     *)
(* last_seen.  data and connected are never written and are left out.      *)
(* Assigning player.game_id changes the object wherever it is held; the    *)
(* model applies it to every holder of that record (SetGameId).            *)
(***************************************************************************)
EXTENDS Integers, Sequences, FiniteSets, TLC

\* ------------------------------------------------------------------ bounds
\* Connections the model opens; each gets its own uuid (server.py:67), so a
\* player id is identified with its socket.
NumSockets == 3
\* Events (connections, commands, closes) of a run.
MaxSteps == 6
\* Events of a run of ClientSpec, which starts from a running game.
ClientSteps == 4
\* Items of a list held by the data of a message of CodecSpec.
MaxItems == 1
\* Sleeps of reconnect() between two opened connections, in AppSpec.
MaxAttempts == 4

\* reconnect's first delay and its largest, in seconds.
retry_delay == 5
max_delay == 30
Sockets == 1..NumSockets

None == "None"

\* No message is being converted.
NoMessage == << >>

\* No client object is followed.
NoApp == << >>

\* game_name values clients send.
UserGameNames == {"g1"}
\* password values clients send (None: key absent).
Passwords == {None, "pw"}
\* max_players values clients send (line 111 passes the value on unchecked).
MaxPlayersChoices == {0, 1, 2, 3}
\* (row, col) values clients send with make_move.
MoveCells == {<<0, 0>>, <<0, 1>>, <<0, 2>>}
Symbols == {"X", "O"}

\* cmd.data.get("player_name", "") of the commands socket s sends.
PlayerName(s) == "n" \o ToString(s)

VARIABLES
    status,             \* per socket: "new", "open", "closing" (peer closed,
                        \* handler still running), "done" (handler returned)
    player,             \* handle_connection's local `player` per live handler
    socket_to_player,   \* ConnectionManager.socket_to_player
    player_to_socket,   \* ConnectionManager.player_to_socket
    games,              \* NexusServer.games
    matchmaking_queue,  \* NexusServer.matchmaking_queue
    sent,               \* the updates written to sockets by the last step
    steps,              \* events handled so far
    pending,            \* per handler suspended at an await: what it has
                        \* left to do.  Spec and PlaySpec run every handler
                        \* to completion in one step, so there it stays
                        \* empty; AwaitSpec lets handlers interleave.
    client,             \* per connection, the client program at its other
                        \* end: the fields of its NexusClient and the
                        \* game_state of its TicTacToeGame.  Spec, PlaySpec
                        \* and AwaitSpec model the server alone and leave
                        \* it empty; ClientSpec models the clients too.
    codec,              \* a Command or Update on its way through to_dict,
                        \* to_json, json.loads and from_dict.  Only
                        \* CodecSpec moves it; the other specifications
                        \* leave it at NoMessage.
    app                 \* one NexusClient object taken alone, with the
                        \* connection its WebSocketApp runs and the calls
                        \* of reconnect() in progress.  Only AppSpec moves
                        \* it; the other specifications leave it at NoApp.

vars == <<status, player, socket_to_player, player_to_socket, games,
          matchmaking_queue, sent, steps, pending, client, codec, app>>

\* ------------------------------------------------------------ enumerations
LOBBY == "lobby"
IN_GAME == "in_game"
END_GAME == "end_game"

MAKE_MOVE == "make_move"
SURRENDER == "surrender"
CREATE_GAME == "create_game"
JOIN_GAME == "join_game"
FIND_GAME == "find_game"

GAME_CREATED == "game_created"
GAME_OVER == "game_over"
GAME_STARTED == "game_started"
GAME_STATE_UPDATE == "game_state_update"
ERROR == "error"

Command(command_type, data) == [command_type |-> command_type, data |-> data]
Update(update_type, data) == [update_type |-> update_type, data |-> data]

\* --------------------------------------------------------------- sequences
\* list.index: position of the first element equal to x, 0 for ValueError.
IndexOf(seq, x) ==
    IF \E i \in 1..Len(seq) : seq[i] = x
    THEN CHOOSE i \in 1..Len(seq) :
            seq[i] = x /\ \A j \in 1..(i - 1) : seq[j] # x
    ELSE 0

\* list.remove: seq without the first element equal to x.
RemoveFirst(seq, x) ==
    LET i == IndexOf(seq, x)
    IN  IF i = 0 THEN seq
        ELSE [j \in 1..(Len(seq) - 1) |-> IF j < i THEN seq[j] ELSE seq[j + 1]]

Range(seq) == {seq[i] : i \in 1..Len(seq)}

\* ------------------------------------------------------------ NexusPlayer
NexusPlayer(id, name, game_id, last_seen) ==
    [id |-> id, name |-> name, game_id |-> game_id, last_seen |-> last_seen]

\* The last_seen values held by the live records of player id.
LiveTimes(st, id) ==
    {st.player[s].last_seen : s \in {x \in DOMAIN st.player : st.player[x].id = id}}
    \cup {st.socket_to_player[s].last_seen :
            s \in {x \in DOMAIN st.socket_to_player : st.socket_to_player[x].id = id}}
    \cup UNION {{p.last_seen : p \in {q \in Range(st.games[n].players) : q.id = id}} :
                    n \in DOMAIN st.games}

\* time.time() at the construction of a record of player id.  The clock has
\* moved on since every older record was built, and last_seen is only ever
\* compared for equality, between records of one id (dataclass __eq__
\* compares id first): the least value no live record of that id holds
\* stands for the new reading.
Now(st, id) ==
    CHOOSE t \in 0..(Cardinality(LiveTimes(st, id))) :
        t \notin LiveTimes(st, id) /\ \A u \in 0..(t - 1) : u \in LiveTimes(st, id)

\* p.game_id = v on the object p: every holder of the record sees it.
SetGameId(st, p, v) ==
    LET upd(q) == IF q = p THEN [q EXCEPT !.game_id = v] ELSE q
    IN  [st EXCEPT
            !.player = [s \in DOMAIN st.player |-> upd(st.player[s])],
            !.socket_to_player =
                [s \in DOMAIN st.socket_to_player |-> upd(st.socket_to_player[s])],
            !.games = [n \in DOMAIN st.games |->
                [st.games[n] EXCEPT !.players =
                    [i \in 1..Len(st.games[n].players) |->
                        upd(st.games[n].players[i])]]]]

\* ------------------------------------------------------ ConnectionManager
\* add_connection: both maps are overwritten.
add_connection(st, socket, p) ==
    [st EXCEPT
        !.socket_to_player =
            [s \in DOMAIN st.socket_to_player \cup {socket} |->
                IF s = socket THEN p ELSE st.socket_to_player[s]],
        !.player_to_socket =
            [i \in DOMAIN st.player_to_socket \cup {p.id} |->
                IF i = p.id THEN socket ELSE st.player_to_socket[i]]]

\* A remove_connection that forgets the reverse entry.
remove_connection_socket_only(st, socket) ==
    IF socket \in DOMAIN st.socket_to_player
    THEN [st EXCEPT
            !.socket_to_player =
                [s \in DOMAIN st.socket_to_player \ {socket} |->
                    st.socket_to_player[s]]]
    ELSE st

\* remove_connection: deletes the socket's entry and the entry of the id of
\* the record found there.
remove_connection(st, socket) ==
    IF socket \in DOMAIN st.socket_to_player
    THEN LET p == st.socket_to_player[socket]
         IN  [st EXCEPT
                !.socket_to_player =
                    [s \in DOMAIN st.socket_to_player \ {socket} |->
                        st.socket_to_player[s]],
                !.player_to_socket =
                    [i \in DOMAIN st.player_to_socket \ {p.id} |->
                        st.player_to_socket[i]]]
    ELSE st

\* ------------------------------------------------------- TicTacToeState
EmptyBoard == [r \in 0..2 |-> [c \in 0..2 |-> ""]]

\* A session's game_state is None (the empty tuple) or <<state>>.
NoGameState == <<>>

\* TicTacToeServer.create_initial_game_state: TicTacToeState(players).
create_initial_game_state ==
    [board |-> EmptyBoard, current_player |-> "X", game_over |-> FALSE,
     winner |-> None, phase |-> IN_GAME]

PlayerSymbol(player_index) == IF player_index = 0 THEN "X" ELSE "O"

\* TicTacToeState.get_player_perspective (player_index counts from 0).
get_player_perspective(gs, player_index) ==
    [game_over |-> gs.game_over, winner |-> gs.winner, phase |-> gs.phase,
     board |-> gs.board, current_player |-> gs.current_player,
     my_symbol |-> PlayerSymbol(player_index),
     is_your_turn |-> (gs.current_player = PlayerSymbol(player_index))]

\* --------------------------------------------------------------- NexusGame
NexusGame(name, password, max_players, players, game_state, phase, is_matchmaking) ==
    [name |-> name, password |-> password, max_players |-> max_players,
     players |-> players, game_state |-> game_state, phase |-> phase,
     is_matchmaking |-> is_matchmaking]

\* --------------------------------------------------------------- sending
\* A handler's running state: the server's fields, what it has written so
\* far, and the exception it raised ("" while it runs normally).
Running ==
    [status |-> status, player |-> player, socket_to_player |-> socket_to_player,
     player_to_socket |-> player_to_socket, games |-> games,
     matchmaking_queue |-> matchmaking_queue, sent |-> <<>>, exc |-> ""]

Raise(st, e) == [st EXCEPT !.exc = e]

\* websocket = get_socket(id); await websocket.send(message).  No socket
\* for the id: None.send raises AttributeError; a socket whose peer has
\* closed raises ConnectionClosed.
Send(st, id, update) ==
    IF id \notin DOMAIN st.player_to_socket THEN Raise(st, "AttributeError")
    ELSE IF st.status[st.player_to_socket[id]] # "open"
         THEN Raise(st, "ConnectionClosed")
         ELSE [st EXCEPT !.sent = Append(@, [to |-> id, update |-> update])]

\* send_game_update with a specific player.
send_game_update(st, update, specific_player) ==
    Send(st, specific_player.id, update)

\* send_error.
send_error(st, p, error_message) ==
    Send(st, p.id, Update(ERROR, [message |-> error_message]))

\* send_game_update without a specific player: one send per member, in list
\* order, ended by the first send that raises.
RECURSIVE Broadcast(_, _, _, _)
Broadcast(st, players, update, i) ==
    IF i > Len(players) \/ st.exc # "" THEN st
    ELSE Broadcast(send_game_update(st, update, players[i]), players, update, i + 1)

\* get_player_game_state: game.players.index(player) raises ValueError,
\* None.get_player_perspective raises AttributeError.  The data, or the
\* exception's name.
PerspectiveExc(game, p) ==
    IF IndexOf(game.players, p) = 0 THEN "ValueError"
    ELSE IF game.game_state = NoGameState THEN "AttributeError"
    ELSE ""

get_player_game_state(game, p) ==
    get_player_perspective(game.game_state[1], IndexOf(game.players, p) - 1)

\* ------------------------------------------------------------- create_game
\* A create_game that skips the lookup of the name.
NameNeverTaken(st, name) == FALSE

\* Line 163: name in self.games.
NameTaken(st, name) == name \in DOMAIN st.games

\* create_game without line 177: the requester's game_id stays.
create_game_keeps_game_id(st, p, name, password, max_players) ==
    IF NameTaken(st, name)
    THEN send_error(st, p, "Game name already exists")
    ELSE LET game == NexusGame(name, password, max_players, <<p>>,
                               NoGameState, LOBBY, FALSE)
             st1 == [st EXCEPT !.games =
                        [n \in DOMAIN st.games \cup {name} |->
                            IF n = name THEN game ELSE st.games[n]]]
         IN  send_game_update(st1, Update(GAME_CREATED, << >>), p)

create_game(st, p, name, password, max_players) ==
    IF NameTaken(st, name)
    THEN send_error(st, p, "Game name already exists")
    ELSE LET game == NexusGame(name, password, max_players, <<p>>,
                               NoGameState, LOBBY, FALSE)
             st1 == [st EXCEPT !.games =
                        [n \in DOMAIN st.games \cup {name} |->
                            IF n = name THEN game ELSE st.games[n]]]
             st2 == SetGameId(st1, p, name)
         IN  send_game_update(st2, Update(GAME_CREATED, << >>),
                              [p EXCEPT !.game_id = name])

\* --------------------------------------------------------------- join_game
\* One pass of the loop of lines 212-215, for the member at position i:
\* the projection, then the send.
JoinStep(st, game_name, i) ==
    LET game == st.games[game_name]
        p == game.players[i]
        e == PerspectiveExc(game, p)
    IN  IF e # "" THEN Raise(st, e)
        ELSE send_game_update(st,
                Update(GAME_STARTED, get_player_game_state(game, p)), p)

\* The loop of lines 212-215, ended by the first pass that raises.
RECURSIVE JoinLoop(_, _, _)
JoinLoop(st, game_name, i) ==
    IF i > Len(st.games[game_name].players) \/ st.exc # "" THEN st
    ELSE JoinLoop(JoinStep(st, game_name, i), game_name, i + 1)

\* A capacity check that is off by one: > for >=.
GameIsFullOffByOne(game) == Len(game.players) > game.max_players

\* Line 196: the game has no seat left.
GameIsFull(game) == Len(game.players) >= game.max_players

\* The checks of join_game with the capacity check moved before the
\* password check.
JoinRefusalFullFirst(st, game_name, password) ==
    IF game_name \notin DOMAIN st.games THEN "Game not found"
    ELSE IF GameIsFull(st.games[game_name]) THEN "Game is full"
    ELSE IF st.games[game_name].password # None
            /\ st.games[game_name].password # password
    THEN "Invalid password"
    ELSE ""

\* Lines 185-199: the message of the check that refuses the join, "" when
\* none does.
JoinRefusal(st, game_name, password) ==
    IF game_name \notin DOMAIN st.games THEN "Game not found"
    ELSE IF st.games[game_name].password # None
            /\ st.games[game_name].password # password
    THEN "Invalid password"
    ELSE IF GameIsFull(st.games[game_name]) THEN "Game is full"
    ELSE ""

\* Line 206: the join has filled the game.
JoinStarts(game) == Len(game.players) = game.max_players

\* Lines 201-209: the player is listed, and the game starts when that
\* fills it.
join_admit(st, p, game_name) ==
    LET st1 == [st EXCEPT !.games[game_name].players = Append(@, p)]
        st2 == SetGameId(st1, p, game_name)
    IN  IF JoinStarts(st2.games[game_name])
        THEN [st2 EXCEPT
                !.games[game_name].game_state = <<create_initial_game_state>>,
                !.games[game_name].phase = IN_GAME]
        ELSE st2

join_game(st, p, game_name, password) ==
    IF JoinRefusal(st, game_name, password) # ""
    THEN send_error(st, p, JoinRefusal(st, game_name, password))
    ELSE JoinLoop(join_admit(st, p, game_name), game_name, 1)

\* --------------------------------------------------------------- find_game
MatchName(n) == "match_" \o ToString(n)

\* connections.get_player(connections.get_socket(pid)): the record, or None
\* (the empty tuple) when the id or its socket is unknown.
PlayerOfId(st, pid) ==
    IF pid \in DOMAIN st.player_to_socket
       /\ st.player_to_socket[pid] \in DOMAIN st.socket_to_player
    THEN <<st.socket_to_player[st.player_to_socket[pid]]>>
    ELSE <<>>

\* One pass of the loop of lines 246-263, for the paired record at
\* position i: a new record with the game_id, installed in the connection
\* maps, then the projection and the send.  Socket 0 stands for the None
\* that get_socket returns.
FindStep(st, game_name, players, i) ==
    LET p == players[i]
        updated_player == NexusPlayer(p.id, p.name, game_name, Now(st, p.id))
        socket == IF p.id \in DOMAIN st.player_to_socket
                  THEN st.player_to_socket[p.id] ELSE 0
        st1 == add_connection(st, socket, updated_player)
        game == st1.games[game_name]
        e == PerspectiveExc(game, updated_player)
    IN  IF e # "" THEN Raise(st1, e)
        ELSE send_game_update(st1,
                Update(GAME_STARTED, get_player_game_state(game, updated_player)),
                updated_player)

\* The loop of lines 246-263, ended by the first pass that raises.
RECURSIVE FindLoop(_, _, _, _)
FindLoop(st, game_name, players, i) ==
    IF i > Len(players) \/ st.exc # "" THEN st
    ELSE FindLoop(FindStep(st, game_name, players, i), game_name, players, i + 1)

\* Line 222, after the append of line 220: the queue holds a pair.
FindPairs(st) == Len(st.matchmaking_queue) + 1 >= 2

\* Line 232: the name of the session find_game registers.
FindName(st) == MatchName(Cardinality(DOMAIN st.games))

\* A pairing that leaves the paired ids in the queue.
find_pair_keeps_queue(st, p) ==
    LET st1 == [st EXCEPT !.matchmaking_queue = Append(@, p.id)]
        q == st1.matchmaking_queue
    IN  IF ~ FindPairs(st) THEN st1
        ELSE IF \E i \in 1..2 : PlayerOfId(st1, q[i]) = <<>>
        THEN Raise(st1, "AttributeError")
        ELSE LET players == [i \in 1..2 |-> PlayerOfId(st1, q[i])[1]]
                 game == NexusGame(FindName(st), None, 2, players,
                                   <<create_initial_game_state>>, IN_GAME, TRUE)
             IN  [st1 EXCEPT
                    !.games = [n \in DOMAIN st1.games \cup {FindName(st)} |->
                                IF n = FindName(st) THEN game ELSE st1.games[n]]]

\* Lines 220-243: the id joins the queue; with two ids queued, their
\* records are looked up, the two ids leave the queue and the session of
\* the pair is registered.
find_pair(st, p) ==
    LET st1 == [st EXCEPT !.matchmaking_queue = Append(@, p.id)]
        q == st1.matchmaking_queue
    IN  IF ~ FindPairs(st) THEN st1
        ELSE IF \E i \in 1..2 : PlayerOfId(st1, q[i]) = <<>>
        THEN Raise(st1, "AttributeError")
        ELSE LET players == [i \in 1..2 |-> PlayerOfId(st1, q[i])[1]]
                 game == NexusGame(FindName(st), None, 2, players,
                                   <<create_initial_game_state>>, IN_GAME, TRUE)
             IN  [st1 EXCEPT
                    !.matchmaking_queue = SubSeq(q, 3, Len(q)),
                    !.games = [n \in DOMAIN st1.games \cup {FindName(st)} |->
                                IF n = FindName(st) THEN game ELSE st1.games[n]]]

find_game(st, p) ==
    LET st2 == find_pair(st, p)
    IN  IF ~ FindPairs(st) \/ st2.exc # "" THEN st2
        ELSE FindLoop(st2, FindName(st), st2.games[FindName(st)].players, 1)

\* ---------------------------------------------------------------- end_game
RECURSIVE ClearGameIds(_, _, _)
ClearGameIds(st, players, i) ==
    IF i > Len(players) THEN st
    ELSE ClearGameIds(
            SetGameId(st, [players[i] EXCEPT !.game_id =
                            IF \E j \in 1..(i - 1) : players[j] = players[i]
                            THEN None ELSE @], None),
            players, i + 1)

\* end_game: game_id = None on every member object, then the name leaves
\* the registry.
end_game(st, game) ==
    LET st1 == ClearGameIds(st, game.players, 1)
    IN  [st1 EXCEPT !.games =
            [n \in DOMAIN st1.games \ {game.name} |-> st1.games[n]]]

\* -------------------------------------------------------- handle_surrender
handle_surrender(st, game_name, p) ==
    LET st1 == [st EXCEPT !.games[game_name].phase = END_GAME]
        game == st1.games[game_name]
        winners == SelectSeq(game.players, LAMBDA q : q # p)
        update == Update(GAME_OVER,
                    [winner |-> IF Len(winners) > 0 THEN winners[1].name ELSE None,
                     reason |-> "surrender"])
        st2 == send_game_update(st1, update, p)
    IN  IF st2.exc # "" THEN st2 ELSE end_game(st2, game)

\* ------------------------------------------------------- TicTacToeState
\* The f-string rendering "({row}, {col})" of is_valid's messages.
Position(data) ==
    "(" \o ToString(data.row) \o ", " \o ToString(data.col) \o ")"

\* An is_valid that does not look at the cell's content.
is_valid_any_cell(gs, data, player_index) ==
    IF PlayerSymbol(player_index) # gs.current_player
    THEN <<FALSE, "Not your turn - it's " \o gs.current_player \o "'s turn">>
    ELSE IF ~ ({"row", "col"} \subseteq DOMAIN data)
    THEN <<FALSE, "Invalid command: missing row or col">>
    ELSE IF ~ (0 <= data.row /\ data.row < 3 /\ 0 <= data.col /\ data.col < 3)
    THEN <<FALSE, "Invalid move: position " \o Position(data) \o " is out of bounds">>
    ELSE <<TRUE, "">>

\* is_valid: <<ok, message>>.  data is the command's data mapping.
is_valid(gs, data, player_index) ==
    IF PlayerSymbol(player_index) # gs.current_player
    THEN <<FALSE, "Not your turn - it's " \o gs.current_player \o "'s turn">>
    ELSE IF ~ ({"row", "col"} \subseteq DOMAIN data)
    THEN <<FALSE, "Invalid command: missing row or col">>
    ELSE IF ~ (0 <= data.row /\ data.row < 3 /\ 0 <= data.col /\ data.col < 3)
    THEN <<FALSE, "Invalid move: position " \o Position(data) \o " is out of bounds">>
    ELSE IF gs.board[data.row][data.col] # ""
    THEN <<FALSE, "Invalid move: position " \o Position(data) \o " is already occupied">>
    ELSE <<TRUE, "">>

\* An is_valid that writes the player's symbol to the cell it accepts.
is_valid_marks_cell(gs, data, player_index) ==
    IF is_valid(gs, data, player_index)[1]
    THEN [gs EXCEPT !.board[data.row][data.col] = PlayerSymbol(player_index)]
    ELSE gs

\* The state (self) after a call of is_valid: the method reads
\* current_player and board and assigns no attribute, on each of its five
\* returns.
is_valid_self(gs, data, player_index) == gs

\* check_winner, as a truth value.
check_winner(board) ==
    \/ \E i \in 0..2 :
        \/ board[i][0] = board[i][1] /\ board[i][1] = board[i][2] /\ board[i][2] # ""
        \/ board[0][i] = board[1][i] /\ board[1][i] = board[2][i] /\ board[2][i] # ""
    \/ board[0][0] = board[1][1] /\ board[1][1] = board[2][2] /\ board[2][2] # ""
    \/ board[0][2] = board[1][1] /\ board[1][1] = board[2][0] /\ board[2][0] # ""

is_draw(board) == \A r \in 0..2 : \A c \in 0..2 : board[r][c] # ""

\* An apply that writes the cell with row and column swapped.
apply_transposed(gs, data) ==
    LET board == [gs.board EXCEPT ![data.col][data.row] = data.symbol]
        moved == [gs EXCEPT !.board = board,
                            !.current_player = IF data.symbol = "X" THEN "O" ELSE "X"]
    IN  IF check_winner(board)
        THEN [moved EXCEPT !.winner = data.symbol, !.game_over = TRUE,
                           !.phase = END_GAME, !.current_player = None]
        ELSE IF is_draw(board)
        THEN [moved EXCEPT !.winner = None, !.game_over = TRUE,
                           !.phase = END_GAME, !.current_player = None]
        ELSE moved

\* apply of a GAME_STATE_UPDATE that carries row and col.
apply(gs, data) ==
    LET board == [gs.board EXCEPT ![data.row][data.col] = data.symbol]
        moved == [gs EXCEPT !.board = board,
                            !.current_player = IF data.symbol = "X" THEN "O" ELSE "X"]
    IN  IF check_winner(board)
        THEN [moved EXCEPT !.winner = data.symbol, !.game_over = TRUE,
                           !.phase = END_GAME, !.current_player = None]
        ELSE IF is_draw(board)
        THEN [moved EXCEPT !.winner = None, !.game_over = TRUE,
                           !.phase = END_GAME, !.current_player = None]
        ELSE moved

\* ----------------------------------------------------- handle_game_command
handle_game_command(st, game_name, p, cmd) ==
    LET game == st.games[game_name]
        i == IndexOf(game.players, p)
    IN  IF i = 0 THEN Raise(st, "ValueError")
        ELSE IF game.game_state = NoGameState THEN Raise(st, "AttributeError")
        ELSE LET v == is_valid(game.game_state[1], cmd.data, i - 1)
                 checked == is_valid_self(game.game_state[1], cmd.data, i - 1)
                 st0 == [st EXCEPT !.games[game_name].game_state = <<checked>>]
             IN  IF ~ v[1] THEN send_error(st0, p, v[2])
                 ELSE IF "symbol" \notin DOMAIN cmd.data THEN Raise(st0, "KeyError")
                 ELSE LET gs == apply(checked, cmd.data)
                          st1 == [st0 EXCEPT !.games[game_name].game_state = <<gs>>]
                          st2 == Broadcast(st1, game.players,
                                    Update(GAME_STATE_UPDATE, cmd.data), 1)
                      IN  IF st2.exc # "" \/ ~ gs.game_over THEN st2
                          ELSE Broadcast(
                                [st2 EXCEPT !.games[game_name].phase = END_GAME],
                                game.players,
                                Update(GAME_OVER,
                                    [winner |-> gs.winner,
                                     reason |-> IF gs.winner # None
                                                THEN "win" ELSE "draw"]),
                                1)

\* validate_game_command.
validate_game_command(game, cmd) ==
    game.phase = IN_GAME /\ cmd.command_type = MAKE_MOVE

\* The else branch of handle_command, lines 135-147.
handle_game_or_surrender(st, p, cmd) ==
    IF p.game_id = None \/ p.game_id \notin DOMAIN st.games THEN st
    ELSE IF cmd.command_type = SURRENDER
    THEN handle_surrender(st, p.game_id, p)
    ELSE IF ~ validate_game_command(st.games[p.game_id], cmd) THEN st
    ELSE handle_game_command(st, p.game_id, p, cmd)

\* -------------------------------------------------------- handle_disconnect
handle_disconnect(st, p) ==
    LET st1 == IF p.id \in Range(st.matchmaking_queue)
               THEN [st EXCEPT !.matchmaking_queue = RemoveFirst(@, p.id)]
               ELSE st
    IN  IF p.game_id = None THEN st1
        ELSE IF p.game_id \notin DOMAIN st1.games THEN Raise(st1, "KeyError")
        ELSE IF IndexOf(st1.games[p.game_id].players, p) = 0
        THEN Raise(st1, "ValueError")
        ELSE LET st2 == [st1 EXCEPT !.games[p.game_id].players = RemoveFirst(@, p)]
                 game == st2.games[p.game_id]
             IN  IF Len(game.players) < 2 THEN end_game(st2, game)
                 ELSE LET e == PerspectiveExc(game, game.players[1])
                      IN  IF e # "" THEN Raise(st2, e)
                          ELSE send_game_update(st2,
                                 Update(GAME_STATE_UPDATE,
                                        get_player_game_state(game, game.players[1])),
                                 game.players[1])

\* ------------------------------------------------------ handle_connection
\* The handler of socket s returns: its local `player` is gone.
Returned(s, st) ==
    [st EXCEPT !.status = [@ EXCEPT ![s] = "done"],
               !.player = [t \in DOMAIN st.player \ {s} |-> st.player[t]]]

\* The end of one pass of the message loop, lines 84-93: an exception of
\* the command's handling is reported by send_error(player, ...); when that
\* send raises, the handler is left: through handle_disconnect for a
\* ConnectionClosed, and through remove_connection in every case.
Settle(s, st) ==
    LET rep == IF st.exc = "" THEN st
               ELSE send_error([st EXCEPT !.exc = ""], st.player[s],
                               "Error: " \o st.exc)
    IN  IF rep.exc = "" THEN rep
        ELSE IF rep.exc = "ConnectionClosed"
        THEN Returned(s, remove_connection(
                            handle_disconnect([rep EXCEPT !.exc = ""], st.player[s]), s))
        ELSE Returned(s, remove_connection(rep, s))

\* The server's fields become those the running state st holds.
Leaves(st) ==
    /\ status' = st.status
    /\ player' = st.player
    /\ socket_to_player' = st.socket_to_player
    /\ player_to_socket' = st.player_to_socket
    /\ games' = st.games
    /\ matchmaking_queue' = st.matchmaking_queue
    /\ sent' = st.sent
    /\ UNCHANGED <<codec, app>>

\* One event handled to completion: the server's fields become those the
\* handler leaves, and no handler is left suspended.
Becomes(st) ==
    /\ Leaves(st)
    /\ steps' = steps + 1
    /\ UNCHANGED <<pending, client>>

\* The record handle_command builds for create_game, join_game and
\* find_game, installed in the connection maps (lines 102-109).
Renamed(st, s, player_name) ==
    LET cur == st.socket_to_player[s]
        new_player == NexusPlayer(cur.id, player_name, cur.game_id, Now(st, cur.id))
    IN  [st |-> add_connection(st, st.player_to_socket[cur.id], new_player),
         new_player |-> new_player]

\* The handler of s is in its message loop: the connection is open, or the
\* peer has closed it and messages it sent before are still queued.
Serving(s) == status[s] \in {"open", "closing"}

\* The sender's record names a registered game (lines 136-139 return
\* without any effect otherwise).
Routed(s) ==
    /\ socket_to_player[s].game_id # None
    /\ socket_to_player[s].game_id \in DOMAIN games

\* The handler of s can take a message: the connection is open, or the peer
\* has closed it and messages it sent before are still queued.
Reading(s) == Serving(s) /\ steps < MaxSteps

\* Lines 66-70: the handler of a new connection s builds its player and
\* registers it.
accept(st, s) ==
    LET p == NexusPlayer(s, "", None, Now(st, s))
    IN  add_connection([st EXCEPT
            !.status = [@ EXCEPT ![s] = "open"],
            !.player = [t \in DOMAIN st.player \cup {s} |->
                            IF t = s THEN p ELSE st.player[t]]], s, p)

\* A new connection.  Sockets are numbered as they connect.
Connect(s) ==
    /\ status[s] = "new"
    /\ steps < MaxSteps
    /\ \A t \in 1..(s - 1) : status[t] # "new"
    /\ Becomes(accept(Running, s))

\* What the handler of s leaves after a create_game, join_game or find_game
\* message: handle_command lines 102-121, then lines 84-93.
on_create_game(s, name, password, max_players) ==
    LET r == Renamed(Running, s, PlayerName(s))
    IN  Settle(s, create_game(r.st, r.new_player, name, password, max_players))

on_join_game(s, name, password) ==
    LET r == Renamed(Running, s, PlayerName(s))
    IN  Settle(s, join_game(r.st, r.new_player, name, password))

on_find_game(s) ==
    LET r == Renamed(Running, s, PlayerName(s))
    IN  Settle(s, find_game(r.st, r.new_player))

\* What the handler of s leaves after a surrender or make_move message:
\* handle_command lines 123-147, then lines 84-93.
game_command_from(st, s, cmd) ==
    Settle(s, handle_game_or_surrender(st, st.socket_to_player[s], cmd))

on_game_command(s, cmd) == game_command_from(Running, s, cmd)

CreateGame(s, name, password, max_players) ==
    /\ Reading(s)
    /\ Becomes(on_create_game(s, name, password, max_players))

JoinGame(s, name, password) ==
    /\ Reading(s)
    /\ Becomes(on_join_game(s, name, password))

FindGame(s) ==
    /\ Reading(s)
    /\ Becomes(on_find_game(s))

Surrender(s) ==
    /\ Reading(s)
    /\ Routed(s)
    /\ Becomes(on_game_command(s, Command(SURRENDER, << >>)))

MakeMove(s, cell, symbol) ==
    /\ Reading(s)
    /\ Routed(s)
    /\ games[socket_to_player[s].game_id].phase = IN_GAME
    /\ Becomes(on_game_command(s, Command(MAKE_MOVE,
                    [row |-> cell[1], col |-> cell[2], symbol |-> symbol])))

\* The peer closes the connection; the handler has not noticed yet.
PeerClose(s) ==
    /\ status[s] = "open"
    /\ steps < MaxSteps
    /\ Becomes([Running EXCEPT !.status = [@ EXCEPT ![s] = "closing"]])

\* The message loop of a closed connection ends: normally (the finally
\* clause alone), or by ConnectionClosed (handle_disconnect, then the
\* finally clause).
HandlerExit(s) ==
    /\ status[s] = "closing"
    /\ steps < MaxSteps
    /\ \/ Becomes(Returned(s, remove_connection(Running, s)))
       \/ Becomes(Returned(s, remove_connection(handle_disconnect(Running, player[s]), s)))

Init ==
    /\ status = [s \in Sockets |-> "new"]
    /\ player = << >>
    /\ socket_to_player = << >>
    /\ player_to_socket = << >>
    /\ games = << >>
    /\ matchmaking_queue = << >>
    /\ sent = << >>
    /\ steps = 0
    /\ pending = << >>
    /\ client = << >>
    /\ codec = NoMessage
    /\ app = NoApp

Next ==
    \/ \E s \in Sockets : Connect(s)
    \/ \E s \in Sockets, name \in UserGameNames, password \in Passwords,
          max_players \in MaxPlayersChoices :
            CreateGame(s, name, password, max_players)
    \/ \E s \in Sockets, name \in UserGameNames, password \in Passwords :
            JoinGame(s, name, password)
    \/ \E s \in Sockets : FindGame(s)
    \/ \E s \in Sockets : Surrender(s)
    \/ \E s \in Sockets, cell \in MoveCells, symbol \in Symbols :
            MakeMove(s, cell, symbol)
    \/ \E s \in Sockets : PeerClose(s)
    \/ \E s \in Sockets : HandlerExit(s)

Spec == Init /\ [][Next]_vars

\* ------------------------------------------------- a running two-player game
\* The server after construction: NexusServer.__init__.
Fresh ==
    [status |-> [s \in Sockets |-> "new"], player |-> << >>,
     socket_to_player |-> << >>, player_to_socket |-> << >>, games |-> << >>,
     matchmaking_queue |-> << >>, sent |-> << >>, exc |-> ""]

\* The server after two connections, create_game "g1" (no password,
\* max_players 2) from the first and join_game "g1" from the second: the
\* game runs, seat 0 is socket 1 and seat 1 is socket 2.
PlayStart ==
    LET a == accept(accept(Fresh, 1), 2)
        r1 == Renamed(a, 1, PlayerName(1))
        c == Settle(1, create_game(r1.st, r1.new_player, "g1", None, 2))
        r2 == Renamed([c EXCEPT !.sent = << >>], 2, PlayerName(2))
    IN  Settle(2, join_game(r2.st, r2.new_player, "g1", None))

\* The data of the make_move messages clients send: moves on the cells of
\* the first row and on two cells of the second with either symbol, a move
\* outside the board, a move with another string as symbol, and data
\* without coordinates or without symbol.
MoveData ==
    {[row |-> cell[1], col |-> cell[2], symbol |-> symbol] :
        cell \in MoveCells \cup {<<1, 0>>, <<1, 1>>, <<3, 0>>}, symbol \in Symbols}
    \cup {[row |-> 0, col |-> 2, symbol |-> "Z"]}
    \cup {[symbol |-> "X"], [row |-> 0, col |-> 1]}

\* A make_move message with any data, from any connection: handle_command
\* lines 135-147 decide whether it reaches the game.
Move(s, data) ==
    /\ Reading(s)
    /\ Becomes(on_game_command(s, Command(MAKE_MOVE, data)))

\* A surrender message from any connection.
Resign(s) ==
    /\ Reading(s)
    /\ Becomes(on_game_command(s, Command(SURRENDER, << >>)))

\* The server's fields are those of PlayStart.
AtPlayStart ==
    /\ status = PlayStart.status
    /\ player = PlayStart.player
    /\ socket_to_player = PlayStart.socket_to_player
    /\ player_to_socket = PlayStart.player_to_socket
    /\ games = PlayStart.games
    /\ matchmaking_queue = PlayStart.matchmaking_queue
    /\ sent = PlayStart.sent

PlayInit ==
    /\ AtPlayStart
    /\ steps = 0
    /\ pending = << >>
    /\ client = << >>
    /\ codec = NoMessage
    /\ app = NoApp

PlayNext ==
    \/ \E s \in Sockets, data \in MoveData : Move(s, data)
    \/ \E s \in Sockets : Resign(s)
    \/ \E s \in Sockets : PeerClose(s)
    \/ \E s \in Sockets : HandlerExit(s)

PlaySpec == PlayInit /\ [][PlayNext]_vars

\* ------------------------------------------------ handlers between awaits
\* The awaits at which a handler can be suspended are the sends
\* (`await websocket.send(...)`, lines 370 and 382): the message is
\* written, and other handlers may run before the sender goes on.  What a
\* suspended handler has left to do: kind names the loop it is in (or
\* "return" when only the return to the message loop is left), game the
\* session it holds, update the update it broadcasts, i the position of
\* the player list it serves next, seq the moment its command was taken.
Cont(kind, game, update, i, seq) ==
    [kind |-> kind, game |-> game, update |-> update, i |-> i, seq |-> seq]

NoUpdate == Update(None, << >>)

\* The handler has reached a send after which only the return is left.
LastSend == Cont("return", None, NoUpdate, 0, 0)

\* The handler is suspended in its last send, that of the update st.sent
\* ends with.
Return(st, seq) ==
    Cont("return", None,
         IF st.sent = << >> THEN NoUpdate ELSE st.sent[Len(st.sent)].update,
         0, seq)

\* The handler goes on from c to its next send, or to its return: the new
\* running state, and what is left then (cont is empty after the return).
\* The loops read the session's player list as it is when they go on.
RECURSIVE Advance(_, _)
Advance(st, c) ==
    LET players == IF c.game \in DOMAIN st.games
                   THEN st.games[c.game].players ELSE << >>
        next == <<[c EXCEPT !.i = @ + 1]>>
        done == [st |-> st, cont |-> << >>]
    IN  IF c.kind = "return" \/ (c.i > Len(players) /\ c.kind # GAME_STATE_UPDATE)
        THEN done
        ELSE IF c.kind = JOIN_GAME
        THEN [st |-> JoinStep(st, c.game, c.i), cont |-> next]
        ELSE IF c.kind = FIND_GAME
        THEN [st |-> FindStep(st, c.game, players, c.i), cont |-> next]
        ELSE IF c.i <= Len(players)
        THEN [st |-> send_game_update(st, c.update, players[c.i]), cont |-> next]
        ELSE \* lines 333-352, after the broadcast of a move
             LET gs == st.games[c.game].game_state[1]
             IN  IF ~ gs.game_over THEN done
                 ELSE Advance([st EXCEPT !.games[c.game].phase = END_GAME],
                        Cont(GAME_OVER, c.game,
                             Update(GAME_OVER,
                                [winner |-> gs.winner,
                                 reason |-> IF gs.winner # None
                                            THEN "win" ELSE "draw"]),
                             1, c.seq))

\* The handler of s has run to r: an exception is reported by send_error (lines
\* 86-88), itself such a send; a handler that has left its connection has
\* nothing left.
Suspend(s, r, seq) ==
    LET st == Settle(s, r.st)
    IN  [st |-> st,
         cont |-> IF st.status[s] = "done" THEN << >>
                  ELSE IF r.st.exc # "" \/ r.cont = <<LastSend>>
                  THEN <<Return(st, seq)>>
                  ELSE r.cont]

\* The handling of a message of s up to its first await.
aw_create_game(s, name, password, max_players) ==
    LET r == Renamed(Running, s, PlayerName(s))
    IN  Suspend(s, [st |-> create_game(r.st, r.new_player, name, password,
                                       max_players),
                    cont |-> <<LastSend>>], steps)

aw_join_game(s, name, password) ==
    LET r == Renamed(Running, s, PlayerName(s))
    IN  Suspend(s,
            IF JoinRefusal(r.st, name, password) # ""
            THEN [st |-> send_error(r.st, r.new_player,
                                    JoinRefusal(r.st, name, password)),
                  cont |-> <<LastSend>>]
            ELSE Advance(join_admit(r.st, r.new_player, name),
                         Cont(JOIN_GAME, name, NoUpdate, 1, steps)),
            steps)

aw_find_game(s) ==
    LET r == Renamed(Running, s, PlayerName(s))
        st2 == find_pair(r.st, r.new_player)
    IN  Suspend(s,
            IF ~ FindPairs(r.st) \/ st2.exc # ""
            THEN [st |-> st2, cont |-> << >>]
            ELSE Advance(st2, Cont(FIND_GAME, FindName(r.st), NoUpdate, 1, steps)),
            steps)

\* handle_command lines 136-147 and handle_game_command lines 321-331.
aw_game_command(s, cmd) ==
    LET st == Running
        p == st.socket_to_player[s]
        quiet == [st |-> st, cont |-> << >>]
    IN  Suspend(s,
            IF p.game_id = None \/ p.game_id \notin DOMAIN st.games THEN quiet
            ELSE IF ~ validate_game_command(st.games[p.game_id], cmd) THEN quiet
            ELSE LET game == st.games[p.game_id]
                     i == IndexOf(game.players, p)
                 IN  IF i = 0
                     THEN [st |-> Raise(st, "ValueError"), cont |-> << >>]
                     ELSE IF game.game_state = NoGameState
                     THEN [st |-> Raise(st, "AttributeError"), cont |-> << >>]
                     ELSE IF ~ is_valid(game.game_state[1], cmd.data, i - 1)[1]
                     THEN [st |-> send_error(
                                    [st EXCEPT !.games[p.game_id].game_state =
                                        <<is_valid_self(game.game_state[1], cmd.data, i - 1)>>],
                                    p, is_valid(game.game_state[1], cmd.data, i - 1)[2]),
                           cont |-> <<LastSend>>]
                     ELSE IF "symbol" \notin DOMAIN cmd.data
                     THEN [st |-> Raise(
                                    [st EXCEPT !.games[p.game_id].game_state =
                                        <<is_valid_self(game.game_state[1], cmd.data, i - 1)>>],
                                    "KeyError"),
                           cont |-> << >>]
                     ELSE Advance(
                            [st EXCEPT !.games[p.game_id].game_state =
                                <<apply(is_valid_self(game.game_state[1], cmd.data, i - 1),
                                        cmd.data)>>],
                            Cont(GAME_STATE_UPDATE, p.game_id,
                                 Update(GAME_STATE_UPDATE, cmd.data), 1, steps)),
            steps)

\* The server's fields become those r leaves, and the handler of s is
\* suspended with what r has left to do, or back in its message loop.
Suspends(s, r) ==
    /\ Leaves(r.st)
    /\ pending' = [t \in (DOMAIN pending \ {s})
                            \cup (IF r.cont = << >> THEN {} ELSE {s}) |->
                        IF t = s THEN r.cont[1] ELSE pending[t]]
    /\ UNCHANGED client

\* The handler of s is in its message loop and can take a message.
Idle(s) == Reading(s) /\ s \notin DOMAIN pending

AwCreateGame(s, name, password, max_players) ==
    /\ Idle(s)
    /\ Suspends(s, aw_create_game(s, name, password, max_players))
    /\ steps' = steps + 1

AwJoinGame(s, name, password) ==
    /\ Idle(s)
    /\ Suspends(s, aw_join_game(s, name, password))
    /\ steps' = steps + 1

AwFindGame(s) ==
    /\ Idle(s)
    /\ Suspends(s, aw_find_game(s))
    /\ steps' = steps + 1

AwMakeMove(s, cell, symbol) ==
    /\ Idle(s)
    /\ Routed(s)
    /\ games[socket_to_player[s].game_id].phase = IN_GAME
    /\ Suspends(s, aw_game_command(s, Command(MAKE_MOVE,
                    [row |-> cell[1], col |-> cell[2], symbol |-> symbol])))
    /\ steps' = steps + 1

\* A suspended handler goes on to its next await.
AwResume(s) ==
    /\ s \in DOMAIN pending
    /\ Suspends(s, Suspend(s, Advance(Running, pending[s]), pending[s].seq))
    /\ UNCHANGED steps

\* The message loop of a closed connection ends when the handler is in it.
AwHandlerExit(s) ==
    /\ s \notin DOMAIN pending
    /\ HandlerExit(s)

AwaitNext ==
    \/ \E s \in Sockets : Connect(s)
    \/ \E s \in Sockets, name \in UserGameNames, password \in Passwords,
          max_players \in MaxPlayersChoices :
            AwCreateGame(s, name, password, max_players)
    \/ \E s \in Sockets, name \in UserGameNames, password \in Passwords :
            AwJoinGame(s, name, password)
    \/ \E s \in Sockets : AwFindGame(s)
    \/ \E s \in Sockets, cell \in MoveCells, symbol \in Symbols :
            AwMakeMove(s, cell, symbol)
    \/ \E s \in Sockets : AwResume(s)
    \/ \E s \in Sockets : PeerClose(s)
    \/ \E s \in Sockets : AwHandlerExit(s)

\* The server with its handlers interleaved at their awaits.  No command of
\* this specification removes a session (surrender is left to Spec), so the
\* session a suspended handler holds stays the one registered under its
\* name.
AwaitSpec == Init /\ [][AwaitNext]_vars

\* ------------------------------------------------------------- the clients
\* dict.get(key, default).
Get(data, key, default) == IF key \in DOMAIN data THEN data[key] ELSE default

\* TicTacToeState() as the client builds it: the defaults of the fields.
ClientState ==
    [board |-> EmptyBoard, current_player |-> "X", game_over |-> FALSE,
     winner |-> None, phase |-> IN_GAME, my_symbol |-> None,
     is_your_turn |-> FALSE]

\* TicTacToeState.apply on the client's state, which carries my_symbol and
\* is_your_turn: a game_started update overwrites the fields from its data,
\* a game_state_update that names a cell is the move, any other update
\* changes nothing.
client_apply(gs, update) ==
    LET data == update.data
    IN  IF update.update_type = GAME_STARTED
        THEN [gs EXCEPT !.board = Get(data, "board", @),
                        !.current_player = Get(data, "current_player", @),
                        !.my_symbol = Get(data, "my_symbol", None),
                        !.is_your_turn = Get(data, "is_your_turn", FALSE),
                        !.game_over = Get(data, "game_over", FALSE),
                        !.winner = Get(data, "winner", None),
                        !.phase = Get(data, "phase", IN_GAME)]
        ELSE IF update.update_type = GAME_STATE_UPDATE
                /\ {"row", "col"} \subseteq DOMAIN data
        THEN LET moved == apply(gs, data)
             IN  [moved EXCEPT !.is_your_turn =
                    IF moved.game_over THEN FALSE
                    ELSE moved.current_player = gs.my_symbol]
        ELSE gs

\* The game loop's handling of a received update (TicTacToeGame.run): the
\* client's game_state, None (the empty tuple) or <<state>>, after it.
on_update(game_state, update) ==
    IF update.update_type = GAME_STARTED
    THEN <<client_apply(ClientState, update)>>
    ELSE IF update.update_type = GAME_STATE_UPDATE
    THEN <<client_apply(IF game_state = NoGameState THEN ClientState
                        ELSE game_state[1], update)>>
    ELSE game_state

\* A NexusClient after __init__ and connect(), with the game_state of its
\* TicTacToeGame.
NexusClient ==
    [connected |-> TRUE, current_game |-> None, player_name |-> None,
     game_password |-> None, game_state |-> NoGameState]

\* NexusClient.send, lines 116-121: what the client keeps of the command.
remember(c, cmd) ==
    IF cmd.command_type \in {CREATE_GAME, JOIN_GAME}
    THEN [c EXCEPT !.current_game = Get(cmd.data, "game_name", None),
                   !.player_name = Get(cmd.data, "player_name", None),
                   !.game_password = Get(cmd.data, "password", None)]
    ELSE IF cmd.command_type = FIND_GAME
    THEN [c EXCEPT !.player_name = Get(cmd.data, "player_name", None)]
    ELSE c

\* The updates out, written by the server, arrive in order: on_message
\* queues each at the client of the connection of its player id, and the
\* game loop takes them from the queue one by one.
RECURSIVE Deliver(_, _, _)
Deliver(cl, out, k) ==
    IF k > Len(out) THEN cl
    ELSE Deliver(IF out[k].to \in DOMAIN cl
                 THEN [cl EXCEPT ![out[k].to].game_state =
                            on_update(@, out[k].update)]
                 ELSE cl,
                 out, k + 1)

\* The client of connection s is connected and can send.
Connected(s) ==
    /\ s \in DOMAIN client
    /\ client[s].connected
    /\ steps < ClientSteps

\* The client of s sends cmd, the server's handling of it leaves st, and
\* the updates written in it arrive.
Sends(s, cmd, st) ==
    /\ Leaves(st)
    /\ steps' = steps + 1
    /\ client' = Deliver([client EXCEPT ![s] = remember(@, cmd)], st.sent, 1)
    /\ UNCHANGED pending

\* NexusClient.connect on a new connection s.
ClConnect(s) ==
    /\ status[s] = "new"
    /\ steps < ClientSteps
    /\ \A t \in 1..(s - 1) : status[t] # "new"
    /\ Leaves(accept(Running, s))
    /\ steps' = steps + 1
    /\ client' = [t \in DOMAIN client \cup {s} |->
                    IF t = s THEN NexusClient ELSE client[t]]
    /\ UNCHANGED pending

ClCreateGame(s, name, password, max_players) ==
    /\ Connected(s)
    /\ Sends(s, Command(CREATE_GAME,
                    [game_name |-> name, password |-> password,
                     player_name |-> PlayerName(s), max_players |-> max_players]),
             on_create_game(s, name, password, max_players))

ClJoinGame(s, name, password) ==
    /\ Connected(s)
    /\ Sends(s, Command(JOIN_GAME,
                    [game_name |-> name, password |-> password,
                     player_name |-> PlayerName(s)]),
             on_join_game(s, name, password))

ClFindGame(s) ==
    /\ Connected(s)
    /\ Sends(s, Command(FIND_GAME, [player_name |-> PlayerName(s)]),
             on_find_game(s))

ClMakeMove(s, cell, symbol) ==
    LET cmd == Command(MAKE_MOVE,
                    [row |-> cell[1], col |-> cell[2], symbol |-> symbol])
    IN  /\ Connected(s)
        /\ Sends(s, cmd, on_game_command(s, cmd))

ClSurrender(s) ==
    /\ Connected(s)
    /\ Sends(s, Command(SURRENDER, << >>),
             on_game_command(s, Command(SURRENDER, << >>)))

\* The connection of s is lost: the server's end is closed, and on_close
\* (client.py lines 29-38) clears connected.
ClLost(s) ==
    /\ Connected(s)
    /\ Leaves([Running EXCEPT !.status = [@ EXCEPT ![s] = "closing"]])
    /\ steps' = steps + 1
    /\ client' = [client EXCEPT ![s].connected = FALSE]
    /\ UNCHANGED pending

\* What the server leaves after it has accepted the connection t and
\* handled the join_game that on_open (client.py lines 40-50) sends on it
\* for the client c.
on_rejoin(t, c) ==
    LET r == Renamed(accept(Running, t), t, c.player_name)
    IN  Settle(t, join_game(r.st, r.new_player, c.current_game, c.game_password))

\* reconnect (client.py lines 88-101), begun by on_close for a client that
\* remembers a game and a name, succeeds: the client of the lost
\* connection s is connected again, by the new connection t, and on_open
\* has sent its join_game.
ClReopen(s, t) ==
    /\ s \in DOMAIN client
    /\ ~ client[s].connected
    /\ client[s].current_game # None
    /\ client[s].player_name # None
    /\ status[t] = "new"
    /\ \A u \in 1..(t - 1) : status[u] # "new"
    /\ steps < ClientSteps
    /\ Leaves(on_rejoin(t, client[s]))
    /\ steps' = steps + 1
    /\ client' = Deliver([u \in (DOMAIN client \ {s}) \cup {t} |->
                            IF u = t THEN [client[s] EXCEPT !.connected = TRUE]
                            ELSE client[u]],
                         on_rejoin(t, client[s]).sent, 1)
    /\ UNCHANGED pending

\* The two clients of PlayStart: each remembers the command it sent, and
\* has received the game_started update of the join.
PlayClients ==
    Deliver([s \in {1, 2} |->
                [NexusClient EXCEPT !.current_game = "g1",
                                    !.player_name = PlayerName(s)]],
            PlayStart.sent, 1)

\* The handler of a lost connection ends.
ClHandlerExit(s) ==
    /\ steps < ClientSteps
    /\ HandlerExit(s)

\* The running game of PlayStart with its two clients.
ClientInit ==
    /\ AtPlayStart
    /\ steps = 0
    /\ pending = << >>
    /\ client = PlayClients
    /\ codec = NoMessage
    /\ app = NoApp

ClientNext ==
    \/ \E s \in Sockets : ClConnect(s)
    \/ \E s \in Sockets, name \in UserGameNames, password \in Passwords,
          max_players \in MaxPlayersChoices :
            ClCreateGame(s, name, password, max_players)
    \/ \E s \in Sockets, name \in UserGameNames, password \in Passwords :
            ClJoinGame(s, name, password)
    \/ \E s \in Sockets : ClFindGame(s)
    \/ \E s \in Sockets, cell \in MoveCells, symbol \in Symbols :
            ClMakeMove(s, cell, symbol)
    \/ \E s \in Sockets : ClSurrender(s)
    \/ \E s \in Sockets : ClLost(s)
    \/ \E s, t \in Sockets : ClReopen(s, t)
    \/ \E s \in Sockets : ClHandlerExit(s)

\* The server with the client programs at the other end of its connections.
ClientSpec == ClientInit /\ [][ClientNext]_vars

\* ----------------------------------------------------------- Serializable
\* Python values, each with the name of its class: str, int, bool and None,
\* lists (sequences of values), dicts (functions from keys to values),
\* members of the Enum classes and instances of the dataclasses.  The field
\* that holds the content is named after its kind.
PyStr(s) == [py |-> "str", v |-> s]
PyInt(n) == [py |-> "int", n |-> n]
PyBool(b) == [py |-> "bool", b |-> b]
PyNone == [py |-> "NoneType"]
PyList(items) == [py |-> "list", items |-> items]
PyDict(items) == [py |-> "dict", map |-> items]
\* The member of the Enum class cls with the given value.
Member(cls, value) == [py |-> cls, v |-> value]
\* The instance of the dataclass cls with the given fields.
Instance(cls, fields) == [py |-> cls, fields |-> fields]

\* The Enum classes and the values of their members.  Each derives from
\* str, so that a member is a str whose text is its value.
EnumValues ==
    [CommandType |-> {MAKE_MOVE, SURRENDER, CREATE_GAME, JOIN_GAME, FIND_GAME},
     UpdateType |-> {GAME_CREATED, GAME_OVER, GAME_STARTED, GAME_STATE_UPDATE, ERROR},
     GamePhase |-> {LOBBY, IN_GAME, END_GAME}]

isinstance_Enum(obj) == obj.py \in DOMAIN EnumValues

\* get_type_hints of the two Serializable dataclasses.
Hints ==
    [Command |-> [command_type |-> "CommandType", data |-> "Dict"],
     Update |-> [update_type |-> "UpdateType", data |-> "Dict"]]

isinstance_Serializable(obj) == obj.py \in DOMAIN Hints

\* to_dict and its _serialize: a member becomes its value, lists and dicts
\* are rebuilt from their serialized items, a nested Serializable becomes
\* its to_dict, every other object stays.
RECURSIVE serialize(_), to_dict(_)
serialize(obj) ==
    IF isinstance_Enum(obj) THEN PyStr(obj.v)
    ELSE IF obj.py = "list"
    THEN PyList([i \in DOMAIN obj.items |-> serialize(obj.items[i])])
    ELSE IF obj.py = "dict"
    THEN PyDict([k \in DOMAIN obj.map |-> serialize(obj.map[k])])
    ELSE IF isinstance_Serializable(obj) THEN to_dict(obj)
    ELSE obj

to_dict(self) ==
    PyDict([f \in DOMAIN self.fields |-> serialize(self.fields[f])])

\* A JSON text, by its grammar: an object, an array, a string, a number,
\* true, false or null.
JsonString(s) == [js |-> "string", v |-> s]
JsonNumber(n) == [js |-> "number", n |-> n]
JsonLiteral(name) == [js |-> name]
JsonArray(items) == [js |-> "array", items |-> items]
JsonObject(members) == [js |-> "object", map |-> members]

\* json.dumps: a str (a member of a str Enum is one) is written as a
\* string, True and False as true and false, an int as a number, None as
\* null, a list as an array and a dict as an object.
RECURSIVE json_dumps(_)
json_dumps(obj) ==
    IF obj.py = "str" \/ isinstance_Enum(obj) THEN JsonString(obj.v)
    ELSE IF obj.py = "bool" THEN JsonLiteral(IF obj.b THEN "true" ELSE "false")
    ELSE IF obj.py = "int" THEN JsonNumber(obj.n)
    ELSE IF obj.py = "NoneType" THEN JsonLiteral("null")
    ELSE IF obj.py = "list"
    THEN JsonArray([i \in DOMAIN obj.items |-> json_dumps(obj.items[i])])
    ELSE JsonObject([k \in DOMAIN obj.map |-> json_dumps(obj.map[k])])

\* json.loads.
RECURSIVE json_loads(_)
json_loads(text) ==
    IF text.js = "string" THEN PyStr(text.v)
    ELSE IF text.js = "true" THEN PyBool(TRUE)
    ELSE IF text.js = "false" THEN PyBool(FALSE)
    ELSE IF text.js = "number" THEN PyInt(text.n)
    ELSE IF text.js = "null" THEN PyNone
    ELSE IF text.js = "array"
    THEN PyList([i \in DOMAIN text.items |-> json_loads(text.items[i])])
    ELSE PyDict([k \in DOMAIN text.map |-> json_loads(text.map[k])])

to_json(self) == json_dumps(to_dict(self))

\* An exception raised instead of a value.
Raised(e) == [py |-> e]

\* field_type(value) of an Enum class: the member with that value (a member
\* of the class is its own value), ValueError when there is none.
EnumCall(field_type, value) ==
    IF value.py = field_type THEN value
    ELSE IF (value.py = "str" \/ isinstance_Enum(value))
            /\ value.v \in EnumValues[field_type]
    THEN Member(field_type, value.v)
    ELSE Raised("ValueError")

\* from_dict without line 74: the fields stay as the dict holds them.
from_dict_unconverted(cls, data) ==
    Instance(cls, [k \in DOMAIN data.map \cap DOMAIN Hints[cls] |-> data.map[k]])

\* from_dict: a field whose hint is an Enum class is converted to its
\* member (neither dataclass has a Serializable field), the keys that are
\* no fields are dropped, and the class is called with the rest; data
\* has a default, the type field has none.
from_dict(cls, data) ==
    LET hints == Hints[cls]
        converted ==
            [k \in DOMAIN data.map |->
                IF k \in DOMAIN hints /\ hints[k] \in DOMAIN EnumValues
                THEN EnumCall(hints[k], data.map[k])
                ELSE data.map[k]]
        filtered_data == [k \in DOMAIN converted \cap DOMAIN hints |-> converted[k]]
        raised == {k \in DOMAIN filtered_data : filtered_data[k].py = "ValueError"}
    IN  IF raised # {} THEN Raised("ValueError")
        ELSE IF DOMAIN hints \ (DOMAIN filtered_data \cup {"data"}) # {}
        THEN Raised("TypeError")
        ELSE Instance(cls, [k \in DOMAIN hints |->
                                IF k \in DOMAIN filtered_data THEN filtered_data[k]
                                ELSE PyDict(<< >>)])

\* a == b of Python: a str by its text (a member of a str Enum is a str),
\* an int by its number (True is 1 and False is 0), None with None alone,
\* lists item by item, dicts key by key, and instances of one dataclass
\* field by field.
StrLike(a) == a.py = "str" \/ isinstance_Enum(a)
IntLike(a) == a.py \in {"int", "bool"}
IntOf(a) == IF a.py = "int" THEN a.n ELSE IF a.b THEN 1 ELSE 0
RECURSIVE eq(_, _)
eq(a, b) ==
    IF StrLike(a) /\ StrLike(b) THEN a.v = b.v
    ELSE IF IntLike(a) /\ IntLike(b) THEN IntOf(a) = IntOf(b)
    ELSE IF a.py # b.py THEN FALSE
    ELSE IF a.py = "NoneType" THEN TRUE
    ELSE IF a.py = "list"
    THEN /\ Len(a.items) = Len(b.items)
         /\ \A i \in DOMAIN a.items : eq(a.items[i], b.items[i])
    ELSE IF a.py = "dict"
    THEN /\ DOMAIN a.map = DOMAIN b.map
         /\ \A k \in DOMAIN a.map : eq(a.map[k], b.map[k])
    ELSE IF isinstance_Serializable(a)
    THEN \A f \in DOMAIN a.fields : eq(a.fields[f], b.fields[f])
    ELSE FALSE

\* The values the data of a message holds: JSON primitives and members of
\* an Enum; lists and mappings of those; lists and mappings of these.
Primitives ==
    {PyStr("a"), PyInt(1), PyBool(TRUE), PyNone, Member("GamePhase", IN_GAME)}
ListsOf(values) ==
    {PyList(items) : items \in UNION {[1..n -> values] : n \in 0..MaxItems}}
MappingsOf(values) ==
    {PyDict(<< >>)} \cup {PyDict([k |-> value]) : value \in values}
Flat == ListsOf(Primitives) \cup MappingsOf(Primitives)
Nested == {PyList(<<value>>) : value \in Flat} \cup MappingsOf(Flat)
DataValues == Primitives \cup Flat \cup Nested
DataMappings ==
    {PyDict(<< >>)}
    \cup {PyDict([a |-> value]) : value \in DataValues}
    \cup {PyDict([a |-> value, b |-> PyInt(1)]) : value \in DataValues}

\* The Commands and Updates with such data.
Messages ==
    {Instance("Command", [command_type |-> Member("CommandType", type),
                          data |-> data]) :
        type \in EnumValues.CommandType, data \in DataMappings}
    \cup {Instance("Update", [update_type |-> Member("UpdateType", type),
                              data |-> data]) :
            type \in EnumValues.UpdateType, data \in DataMappings}

\* The message x at a stage of its conversion: "new" (x itself), "json"
\* (its JSON text), "dict" (the dict of its fields) or "back" (the record
\* from_dict built); json tells that the dict was parsed from JSON text.
Stage(x, stage, val, json) == [x |-> x, stage |-> stage, val |-> val, json |-> json]

Converts(next) ==
    /\ codec' = next
    /\ UNCHANGED <<status, player, socket_to_player, player_to_socket, games,
                   matchmaking_queue, sent, steps, pending, client, app>>

\* x.to_dict().
ToDict ==
    /\ codec # NoMessage
    /\ codec.stage = "new"
    /\ Converts(Stage(codec.x, "dict", to_dict(codec.val), FALSE))

\* x.to_json(), as NexusClient.send and send_game_update write a message.
ToJson ==
    /\ codec # NoMessage
    /\ codec.stage = "new"
    /\ Converts(Stage(codec.x, "json", to_json(codec.val), FALSE))

\* json.loads of the text, as handle_connection reads a message.
JsonLoads ==
    /\ codec # NoMessage
    /\ codec.stage = "json"
    /\ Converts(Stage(codec.x, "dict", json_loads(codec.val), TRUE))

\* cls.from_dict of the dict, cls the class of x.
FromDict ==
    /\ codec # NoMessage
    /\ codec.stage = "dict"
    /\ Converts(Stage(codec.x, "back", from_dict(codec.x.py, codec.val), codec.json))

CodecInit ==
    /\ status = [s \in Sockets |-> "new"]
    /\ player = << >>
    /\ socket_to_player = << >>
    /\ player_to_socket = << >>
    /\ games = << >>
    /\ matchmaking_queue = << >>
    /\ sent = << >>
    /\ steps = 0
    /\ pending = << >>
    /\ client = << >>
    /\ codec \in {Stage(x, "new", x, FALSE) : x \in Messages}
    /\ app = NoApp

CodecNext == ToDict \/ ToJson \/ JsonLoads \/ FromDict

\* The conversions of one message, for every message of Messages.
CodecSpec == CodecInit /\ [][CodecNext]_vars

\* ------------------------------------------------------------ NexusClient
\* The names of CommandType's members.
CommandTypeNames ==
    {"MAKE_MOVE", "SURRENDER", "CREATE_GAME", "JOIN_GAME", "FIND_GAME"}

\* A call of reconnect() in progress: its retry_delay, and where it is,
\* "sleep" (before time.sleep), "connect" (before connect()) or "waiting"
\* (inside connect(), in the loop that waits for connected).
Reconnect(delay, at) == [retry_delay |-> delay, at |-> at]

\* A NexusClient after __init__ and a connect() that has returned:
\* connected, ws (None, or "ws" for its WebSocketApp), the remembered
\* game, name and password, the state of the connection that the
\* WebSocketApp's thread runs ("open", "broken" once it is lost and
\* on_close has not run yet, "none"), the commands the last call wrote to
\* it, the error of the last call ("" for none), the calls of reconnect()
\* in progress, innermost last, and the delays they have slept since the
\* connection was lost.
ConnectedClient ==
    [connected |-> TRUE, ws |-> "ws", conn |-> "open",
     current_game |-> None, player_name |-> None, game_password |-> None,
     written |-> << >>, error |-> "", threads |-> << >>, waits |-> << >>]

\* A send that does not look at connected.
send_unguarded(c, cmd) ==
    IF c.conn = "open"
    THEN [remember(c, cmd) EXCEPT !.written = <<cmd>>, !.error = ""]
    ELSE [remember(c, cmd) EXCEPT !.written = << >>, !.error = "ConnectionClosed"]

\* NexusClient.send: nothing but a printed error when not connected;
\* otherwise the command is remembered, then written (ws.send raises on a
\* lost connection).
send(c, cmd) ==
    IF ~ c.connected
    THEN [c EXCEPT !.written = << >>, !.error = "Not connected"]
    ELSE IF c.conn = "open"
    THEN [remember(c, cmd) EXCEPT !.written = <<cmd>>, !.error = ""]
    ELSE [remember(c, cmd) EXCEPT !.written = << >>, !.error = "ConnectionClosed"]

\* on_close: connected and ws are cleared, and reconnect() is called when a
\* game and a name are remembered.
on_close(c) ==
    LET d == [c EXCEPT !.connected = FALSE, !.ws = None, !.conn = "none",
                       !.written = << >>, !.error = ""]
    IN  IF d.current_game # None /\ d.player_name # None
        THEN [d EXCEPT !.threads = Append(@, Reconnect(retry_delay, "sleep"))]
        ELSE d

\* on_open: connected is set, and join_game is sent for a remembered game
\* and name.
on_open(c) ==
    LET d == [c EXCEPT !.connected = TRUE, !.conn = "open",
                       !.written = << >>, !.error = ""]
    IN  IF d.current_game # None /\ d.player_name # None
        THEN send(d, Command(JOIN_GAME,
                        [game_name |-> d.current_game,
                         player_name |-> d.player_name,
                         password |-> d.game_password]))
        ELSE d

\* close(): for a client with a ws that is connected, the try block, the
\* except clause and the finally clause.  The first statement of the try
\* block evaluates CommandType.DISCONNECT; when CommandType has no such
\* member this raises AttributeError, the rest of the block (send, clearing
\* the remembered values, ws.close()) is skipped, and the except clause
\* prints the error.
close(c) ==
    IF ~ (c.ws # None /\ c.connected) THEN [c EXCEPT !.written = << >>, !.error = ""]
    ELSE IF "DISCONNECT" \in CommandTypeNames
    THEN LET s1 == send(c, Command("disconnect", << >>))
         IN  [s1 EXCEPT !.current_game = None, !.player_name = None,
                        !.game_password = None, !.conn = "none",
                        !.connected = FALSE, !.ws = None]
    ELSE [c EXCEPT !.written = << >>, !.error = "AttributeError",
                   !.connected = FALSE, !.ws = None]

\* The commands the program sends.
AppCommands ==
    {Command(CREATE_GAME, [game_name |-> "g1", password |-> "pw", player_name |-> "n1"]),
     Command(JOIN_GAME, [game_name |-> "g2", password |-> None, player_name |-> "n2"]),
     Command(JOIN_GAME, [player_name |-> "n1"]),
     Command(FIND_GAME, [player_name |-> "n3"]),
     Command(MAKE_MOVE, [row |-> 0, col |-> 0, symbol |-> "X"]),
     Command(SURRENDER, << >>)}

AppBecomes(c) ==
    /\ app' = c
    /\ UNCHANGED <<status, player, socket_to_player, player_to_socket, games,
                   matchmaking_queue, sent, steps, pending, client, codec>>

\* The program calls send.
AppSend(cmd) ==
    /\ app # NoApp
    /\ AppBecomes(send(app, cmd))

\* The program calls close().
AppClose ==
    /\ app # NoApp
    /\ AppBecomes(close(app))

\* The connection is lost.
AppLost ==
    /\ app # NoApp
    /\ app.conn = "open"
    /\ AppBecomes([app EXCEPT !.conn = "broken", !.written = << >>, !.error = ""])

\* The WebSocketApp's thread calls on_close for the lost connection.
AppOnClose ==
    /\ app # NoApp
    /\ app.conn = "broken"
    /\ AppBecomes(on_close(app))

\* The innermost reconnect() is at place at.
ReconnectAt(at) ==
    /\ app # NoApp
    /\ app.threads # << >>
    /\ app.threads[Len(app.threads)].at = at

\* time.sleep(retry_delay) of the innermost reconnect().
AppSleep ==
    /\ ReconnectAt("sleep")
    /\ ~ app.connected
    /\ Len(app.waits) < MaxAttempts
    /\ AppBecomes([app EXCEPT
            !.waits = Append(@, app.threads[Len(app.threads)].retry_delay),
            !.threads[Len(app.threads)].at = "connect",
            !.written = << >>, !.error = ""])

\* connect() raises (the WebSocketApp or its thread cannot be made): the
\* except clause of reconnect() doubles retry_delay up to max_delay.
AppConnectRaises ==
    /\ ReconnectAt("connect")
    /\ AppBecomes([app EXCEPT
            !.threads[Len(app.threads)] =
                Reconnect(IF 2 * @.retry_delay < max_delay
                          THEN 2 * @.retry_delay ELSE max_delay, "sleep"),
            !.written = << >>, !.error = ""])

\* connect() starts the WebSocketApp's thread and waits for connected; the
\* connection cannot be opened, and the thread calls on_close, which calls
\* reconnect() again while the call of connect() goes on waiting.
AppConnectFails ==
    /\ ReconnectAt("connect")
    /\ AppBecomes(on_close([app EXCEPT
            !.threads[Len(app.threads)].at = "waiting", !.ws = "ws"]))

\* The same, when the thread ends without a call of on_close: connect()
\* goes on waiting and nothing is attempted any more.
AppConnectHangs ==
    /\ ReconnectAt("connect")
    /\ AppBecomes([app EXCEPT
            !.threads[Len(app.threads)].at = "waiting", !.ws = "ws",
            !.written = << >>, !.error = ""])

\* connect() starts the thread and the connection opens: on_open runs,
\* every connect() that waits returns and every reconnect() with it.
AppConnectOpens ==
    /\ ReconnectAt("connect")
    /\ AppBecomes(on_open([app EXCEPT !.threads = << >>, !.waits = << >>,
                                      !.ws = "ws"]))

AppInit ==
    /\ status = [s \in Sockets |-> "new"]
    /\ player = << >>
    /\ socket_to_player = << >>
    /\ player_to_socket = << >>
    /\ games = << >>
    /\ matchmaking_queue = << >>
    /\ sent = << >>
    /\ steps = 0
    /\ pending = << >>
    /\ client = << >>
    /\ codec = NoMessage
    /\ app = ConnectedClient

AppNext ==
    \/ \E cmd \in AppCommands : AppSend(cmd)
    \/ AppClose
    \/ AppLost
    \/ AppOnClose
    \/ AppSleep
    \/ AppConnectRaises
    \/ AppConnectFails
    \/ AppConnectHangs
    \/ AppConnectOpens

\* One NexusClient and the events of its connection.
AppSpec == AppInit /\ [][AppNext]_vars

\* ------------------------------------------- messages that are no commands
\* A text json.loads refuses (JSONDecodeError).
InvalidJson == [js |-> "invalid"]

\* The inbound texts that are no well-formed command, as the connection s
\* may send them: no JSON at all, the command_type "disconnect" (no member
\* of CommandType), no command_type, create_game and join_game without
\* game_name, make_move without data.
Malformed(s) ==
    {InvalidJson,
     JsonObject([command_type |-> JsonString("disconnect"),
                 data |-> JsonObject(<< >>)]),
     JsonObject([data |-> JsonObject(<< >>)]),
     JsonObject([command_type |-> JsonString(CREATE_GAME),
                 data |-> JsonObject([player_name |-> JsonString(PlayerName(s))])]),
     JsonObject([command_type |-> JsonString(JOIN_GAME),
                 data |-> JsonObject([player_name |-> JsonString(PlayerName(s))])]),
     JsonObject([command_type |-> JsonString(MAKE_MOVE),
                 data |-> JsonObject(<< >>)])}

\* cmd.data.get(key, default) of a str entry.
data_get(data, key, default) ==
    IF key \in DOMAIN data.map THEN data.map[key].v ELSE default

\* create_game or join_game without game_name: handle_command installs
\* new_player (lines 102-109, 114-121), then cmd.data["game_name"] raises
\* KeyError.
on_missing_game_name(st, s, data) ==
    Settle(s, Raise(Renamed(st, s, data_get(data, "player_name", "")).st, "KeyError"))

\* One pass of the message loop (lines 73-88) for a text of Malformed(s):
\* json.loads, Command.from_dict, handle_command, and the two except
\* clauses.
on_message(s, text) ==
    IF text = InvalidJson THEN Running
    ELSE LET data == json_loads(text)
             cmd == from_dict("Command", data)
         IN  IF ~ isinstance_Serializable(cmd) THEN Settle(s, Raise(Running, cmd.py))
             ELSE IF cmd.fields.command_type.v \in {CREATE_GAME, JOIN_GAME}
             THEN on_missing_game_name(Running, s, cmd.fields.data)
             ELSE on_game_command(s, Command(cmd.fields.command_type.v, << >>))

Receive(s, text) ==
    /\ Reading(s)
    /\ Becomes(on_message(s, text))

\* The server with the well-formed commands of Next and the texts of
\* Malformed.
WireNext ==
    \/ Next
    \/ \E s \in Sockets : \E text \in Malformed(s) : Receive(s, text)

WireSpec == Init /\ [][WireNext]_vars

\* ------------------------------------------------------------------ claims
ErrorTo(id, message) ==
    [to |-> id, update |-> Update(ERROR, [message |-> message])]

\* The step keeps the session object registered as n: n is registered
\* before and after, and no find_game of this step built a new session
\* under that name.
SameSession(n) ==
    /\ n \in DOMAIN games
    /\ n \in DOMAIN games'
    /\ ~ /\ Len(matchmaking_queue) >= 1
         /\ n = MatchName(Cardinality(DOMAIN games))
         /\ \E s \in Sockets : FindGame(s)

\* C1: every registered session is stored under its own name, so no two
\* sessions share one; and in every reachable state a create_game for a
\* registered name changes no session (player list, phase, game_state),
\* registers none, and is answered, when the requester's connection is
\* open, by exactly the 'name already exists' Error.
C1_DuplicateCreateRefused ==
    /\ \A n \in DOMAIN games : games[n].name = n
    /\ \A s \in Sockets, name \in UserGameNames, password \in Passwords,
          max_players \in MaxPlayersChoices :
            (Serving(s) /\ name \in DOMAIN games)
            => LET r == on_create_game(s, name, password, max_players)
               IN  /\ r.games = games
                   /\ status[s] = "open"
                        => r.sent = <<ErrorTo(s, "Game name already exists")>>

C1_Witness ==
    \E s \in Sockets :
        /\ sent = <<ErrorTo(s, "Game name already exists")>>
        /\ "g1" \in DOMAIN games

\* C2: a session created with max_players >= 2 never lists more players
\* than max_players.
C2_PlayersWithinMax ==
    \A n \in DOMAIN games :
        games[n].max_players >= 2 => Len(games[n].players) <= games[n].max_players

C2_Witness ==
    \E s \in Sockets, n \in DOMAIN games :
        /\ Len(games[n].players) = games[n].max_players
        /\ games[n].max_players = 3
        /\ sent = <<ErrorTo(s, "Game is full")>>

\* C3: a session whose player count equals max_players is not in Lobby;
\* a session object enters InGame only in the step that brings its player
\* count up to max_players, that step gives it its initial game_state, and
\* a game_state once present is neither dropped nor built again.
C3_StartsExactlyWhenFull ==
    /\ [](\A n \in DOMAIN games :
            Len(games[n].players) = games[n].max_players => games[n].phase # LOBBY)
    /\ [][\A n \in DOMAIN games :
            SameSession(n) =>
                LET g == games[n]
                    h == games'[n]
                    fills == /\ Len(g.players) < g.max_players
                             /\ Len(h.players) = h.max_players
                IN  /\ fills => /\ h.phase = IN_GAME
                                /\ h.game_state = <<create_initial_game_state>>
                    /\ (g.phase # IN_GAME /\ h.phase = IN_GAME)
                            => fills /\ g.game_state = NoGameState
                    /\ g.game_state # NoGameState
                            => /\ h.game_state # NoGameState
                               /\ h.game_state = <<create_initial_game_state>>
                                    => g.game_state = h.game_state]_vars

\* C4: every registered session has a game_state exactly when its phase is
\* not Lobby.
C4_GameStateIffNotLobby ==
    \A n \in DOMAIN games :
        (games[n].game_state # NoGameState) <=> (games[n].phase # LOBBY)

PhaseRank(phase) ==
    CASE phase = LOBBY -> 0 [] phase = IN_GAME -> 1 [] phase = END_GAME -> 2

\* C5: no step moves the phase of a session backwards in the order
\* Lobby < InGame < EndGame.
C5_PhaseNeverRegresses ==
    [][\A n \in DOMAIN games :
        SameSession(n) => PhaseRank(games'[n].phase) >= PhaseRank(games[n].phase)]_vars

\* C6: a find_game that finds a partner builds its session from the two
\* oldest queued ids in queue order; the two members of a matchmade session
\* are different players, and no player id is a member of two registered
\* matchmade sessions.
C6_FifoPairsDistinctPlayers ==
    /\ [](\A n \in DOMAIN games :
            games[n].is_matchmaking
            => /\ games[n].players[1].id # games[n].players[2].id
               /\ \A m \in DOMAIN games \ {n} :
                    games[m].is_matchmaking
                    => {p.id : p \in Range(games[n].players)}
                        \cap {p.id : p \in Range(games[m].players)} = {})
    /\ [][\A s \in Sockets :
            LET n == MatchName(Cardinality(DOMAIN games))
                q == Append(matchmaking_queue, s)
            IN  (/\ Len(matchmaking_queue) >= 1
                 /\ n \in DOMAIN games'
                 /\ games'[n].is_matchmaking
                 /\ FindGame(s))
                => /\ games'[n].players[1].id = q[1]
                   /\ games'[n].players[2].id = q[2]
                   /\ matchmaking_queue' = SubSeq(q, 3, Len(q))]_vars

\* C7: the matchmaking queue never holds two entries once a find_game has
\* been handled.
C7_QueueBelowTwo == Len(matchmaking_queue) < 2

\* C8: a find_game that brings the queue to two entries, both of open
\* connections, registers a matchmade two-player InGame session and sends
\* each of the two players GameStarted with the projection of their seat,
\* and nothing else.
C8_PairingSendsGameStarted ==
    [][\A s \in Sockets :
        (/\ Len(matchmaking_queue) = 1
         /\ status[s] = "open"
         /\ matchmaking_queue[1] \in DOMAIN player_to_socket
         /\ status[player_to_socket[matchmaking_queue[1]]] = "open"
         /\ FindGame(s))
        => LET n == MatchName(Cardinality(DOMAIN games))
               seat(i) == get_player_perspective(create_initial_game_state, i)
           IN  /\ n \in DOMAIN games'
               /\ games'[n].is_matchmaking
               /\ games'[n].max_players = 2
               /\ games'[n].phase = IN_GAME
               /\ sent' = << [to |-> matchmaking_queue[1],
                              update |-> Update(GAME_STARTED, seat(0))],
                             [to |-> s,
                              update |-> Update(GAME_STARTED, seat(1))] >>]_vars

\* The check that refuses a join of session name with password, in the
\* order not-found, bad-password, full; "" when the join is accepted.
JoinRefusedBy(name, password) ==
    IF name \notin DOMAIN games THEN "Game not found"
    ELSE IF games[name].password # None /\ games[name].password # password
    THEN "Invalid password"
    ELSE IF Len(games[name].players) >= games[name].max_players
    THEN "Game is full"
    ELSE ""

\* C9: in every reachable state a join_game that is refused changes no
\* session; when the requester's connection is open it also leaves the
\* queue, every record's game_id and every other connection's record as
\* they are, and is answered by exactly one Error, to the requester, that
\* of the first failing check in the order not-found, bad-password, full.
C9_RefusedJoinChangesNothing ==
    \A s \in Sockets, name \in UserGameNames, password \in Passwords :
        (Serving(s) /\ JoinRefusedBy(name, password) # "")
        => LET r == on_join_game(s, name, password)
           IN  /\ r.games = games
               /\ status[s] = "open"
                    => /\ r.matchmaking_queue = matchmaking_queue
                       /\ r.status = status
                       /\ r.player_to_socket = player_to_socket
                       /\ DOMAIN r.socket_to_player = DOMAIN socket_to_player
                       /\ \A t \in DOMAIN socket_to_player :
                            /\ r.socket_to_player[t].game_id
                                    = socket_to_player[t].game_id
                            /\ t # s => r.socket_to_player[t] = socket_to_player[t]
                       /\ r.sent = <<ErrorTo(s, JoinRefusedBy(name, password))>>

C9_Witness ==
    \E s \in Sockets, n \in DOMAIN games :
        /\ sent = <<ErrorTo(s, "Invalid password")>>
        /\ Len(games[n].players) = games[n].max_players
        /\ games[n].password = "pw"

\* C10: an accepted join_game, with every member's connection open, sends
\* each member of the session, in player-list order, one GameStarted
\* update, and nothing else (no Error to the joiner).
C10_JoinSendsGameStartedToAll ==
    [][\A s \in Sockets, name \in UserGameNames, password \in Passwords :
        (/\ JoinRefusedBy(name, password) = ""
         /\ status[s] = "open"
         /\ \A p \in Range(games[name].players) :
                /\ p.id \in DOMAIN player_to_socket
                /\ status[player_to_socket[p.id]] = "open"
         /\ JoinGame(s, name, password))
        => LET members == games'[name].players
           IN  /\ Len(members) = Len(games[name].players) + 1
               /\ members[Len(members)].id = s
               /\ Len(sent') = Len(members)
               /\ \A i \in 1..Len(members) :
                    /\ sent'[i].to = members[i].id
                    /\ sent'[i].update.update_type = GAME_STARTED]_vars

\* The record the connection manager holds for socket s is a member of the
\* registered session n.
MemberOf(s, n) ==
    /\ s \in DOMAIN socket_to_player
    /\ socket_to_player[s].game_id = n
    /\ n \in DOMAIN games
    /\ socket_to_player[s] \in Range(games[n].players)

\* C11: when the handler of a closed connection returns and the
\* connection's player was a member of a two-player InGame session, the
\* session is gone from the registry and no connection's record names it
\* any more.
C11_DisconnectTearsDownSession ==
    [][\A s \in Sockets, n \in DOMAIN games :
        (/\ status[s] = "closing"
         /\ status'[s] = "done"
         /\ MemberOf(s, n)
         /\ games[n].phase = IN_GAME
         /\ Len(games[n].players) = 2
         /\ games[n].players[1].id # games[n].players[2].id)
        => /\ n \notin DOMAIN games'
           /\ \A t \in DOMAIN socket_to_player' :
                socket_to_player'[t].game_id # n]_vars

\* C12: the id of a connection whose handler has returned is not in the
\* matchmaking queue.
C12_ClosedIdLeavesQueue ==
    \A s \in Sockets : status[s] = "done" => s \notin Range(matchmaking_queue)

\* Session n runs with two members and socket s holds the record of its
\* seat (0 or 1); the connections of both members are open.
Seated(s, n, seat) ==
    /\ Serving(s)
    /\ MemberOf(s, n)
    /\ games[n].phase = IN_GAME
    /\ games[n].game_state # NoGameState
    /\ Len(games[n].players) = 2
    /\ games[n].players[seat + 1] = socket_to_player[s]
    /\ \A p \in Range(games[n].players) :
            /\ p.id \in DOMAIN player_to_socket
            /\ status[player_to_socket[p.id]] = "open"

\* The make_move data names a cell and a symbol.
FullMove(data) == {"row", "col", "symbol"} \subseteq DOMAIN data

\* C13: a make_move at (0,0) from the seat-0 player of a running
\* two-player session that is_valid accepts sends one game_state_update to
\* each of the two players, and leaves board[0][0] set and current_player
\* flipped from X to O.
C13_AcceptedMoveBroadcast ==
    [][\A s \in Sockets, n \in DOMAIN games, data \in MoveData :
        (/\ Seated(s, n, 0)
         /\ FullMove(data)
         /\ data.row = 0 /\ data.col = 0
         /\ is_valid(games[n].game_state[1], data, 0)[1]
         /\ Move(s, data))
        => /\ Len(sent') = 2
           /\ \A i \in 1..2 :
                /\ sent'[i].to = games[n].players[i].id
                /\ sent'[i].update.update_type = GAME_STATE_UPDATE
           /\ n \in DOMAIN games'
           /\ games'[n].game_state[1].board[0][0] # ""
           /\ games'[n].game_state[1].current_player = "O"]_vars

\* The game state of the registered session n says the game is over.
IsOver(g) == g.game_state # NoGameState /\ g.game_state[1].game_over

\* The types of the updates a step has sent.
SentTypes(out) == {out[i].update.update_type : i \in 1..Len(out)}

\* C14: the step in which an accepted move sets game_over sends each
\* member, after the game_state_update, exactly one game_over update that
\* carries the game state's winner; and once a session's game is over no
\* step sends a game_state_update or a game_over update any more.
C14_OneGameOverThenSilence ==
    [][\A n \in DOMAIN games :
        /\ (/\ ~ IsOver(games[n])
            /\ n \in DOMAIN games'
            /\ IsOver(games'[n])
            /\ \A p \in Range(games[n].players) :
                    /\ p.id \in DOMAIN player_to_socket
                    /\ status[player_to_socket[p.id]] = "open")
           => \A p \in Range(games[n].players) :
                /\ Cardinality({i \in 1..Len(sent') :
                        /\ sent'[i].to = p.id
                        /\ sent'[i].update.update_type = GAME_OVER}) = 1
                /\ \A i \in 1..Len(sent') :
                        sent'[i].update.update_type = GAME_OVER
                        => sent'[i].update.data.winner
                                = games'[n].game_state[1].winner
        /\ IsOver(games[n])
           => SentTypes(sent') \cap {GAME_OVER, GAME_STATE_UPDATE} = {}]_vars

\* C15: no session whose game is over stays in the registry, and no
\* connection's record names a session that is not registered: the
\* handling of the move that ends the game removes the session and clears
\* the members' game_id.
C15_GameOverTearsDown ==
    /\ \A n \in DOMAIN games : ~ IsOver(games[n])
    /\ \A s \in DOMAIN socket_to_player :
            socket_to_player[s].game_id # None
            => socket_to_player[s].game_id \in DOMAIN games

\* C16: a surrender from a member of a running two-player session sends
\* every member of the session one game_over update that names the other
\* player as winner, and removes the session from the registry.
C16_SurrenderReachesEveryMember ==
    [][\A s \in Sockets, n \in DOMAIN games, seat \in 0..1 :
        (Seated(s, n, seat) /\ Resign(s))
        => /\ n \notin DOMAIN games'
           /\ \A i \in 1..2 :
                \E k \in 1..Len(sent') :
                    /\ sent'[k].to = games[n].players[i].id
                    /\ sent'[k].update =
                        Update(GAME_OVER,
                               [winner |-> games[n].players[2 - seat].name,
                                reason |-> "surrender"])]_vars

\* Socket s holds a record that is listed in the running session n, at
\* seat index seat (list.index: the first equal entry).
Plays(s, n, seat) ==
    /\ Serving(s)
    /\ MemberOf(s, n)
    /\ games[n].phase = IN_GAME
    /\ games[n].game_state # NoGameState
    /\ IndexOf(games[n].players, socket_to_player[s]) = seat + 1

\* The reasons for which a move is to be rejected: not the sender's turn,
\* coordinates missing or outside the board, cell occupied.
MoveIllegal(gs, data, seat) ==
    \/ gs.current_player # (IF seat = 0 THEN "X" ELSE "O")
    \/ "row" \notin DOMAIN data
    \/ "col" \notin DOMAIN data
    \/ data.row \notin 0..2
    \/ data.col \notin 0..2
    \/ gs.board[data.row][data.col] # ""

\* C17: in every reachable state, a make_move that is to be rejected (not
\* the sender's turn, coordinates missing or out of bounds, cell occupied)
\* changes no session (board, current_player, game_over, winner, phase)
\* and, when the sender's connection is open, changes nothing else either
\* and sends exactly one update: an Error, to the sender.
C17_RejectedMoveChangesNothing ==
    \A s \in Sockets, n \in DOMAIN games, seat \in 0..1, data \in MoveData :
        (Plays(s, n, seat) /\ MoveIllegal(games[n].game_state[1], data, seat))
        => LET r == on_game_command(s, Command(MAKE_MOVE, data))
           IN  /\ r.games = games
               /\ status[s] = "open"
                    => /\ Len(r.sent) = 1
                       /\ r.sent[1].to = s
                       /\ r.sent[1].update.update_type = ERROR
                       /\ r.status = status
                       /\ r.socket_to_player = socket_to_player
                       /\ r.player_to_socket = player_to_socket
                       /\ r.matchmaking_queue = matchmaking_queue

\* A move on an occupied cell has just been answered with an Error, by the
\* player whose turn it is.
C17_Witness ==
    \E s \in Sockets, n \in DOMAIN games :
        /\ sent = <<ErrorTo(s, "Invalid move: position (0, 0) is already occupied")>>
        /\ games[n].phase = IN_GAME
        /\ \E r \in 0..2, c \in 0..2 : games[n].game_state[1].board[r][c] # ""

\* The session of the record socket s holds cannot be resolved, or is not
\* in phase InGame.
NotPlayable(s) ==
    \/ socket_to_player[s].game_id = None
    \/ socket_to_player[s].game_id \notin DOMAIN games
    \/ games[socket_to_player[s].game_id].phase # IN_GAME

\* C18: a make_move from an open connection whose record names no
\* registered session, or a session that is not InGame, changes no session
\* and is answered with exactly one Error update, to the sender.
C18_UnroutableMoveGetsError ==
    [][\A s \in Sockets, data \in MoveData :
        (/\ status[s] = "open"
         /\ NotPlayable(s)
         /\ Move(s, data))
        => /\ games' = games
           /\ Len(sent') = 1
           /\ sent'[1].to = s
           /\ sent'[1].update.update_type = ERROR]_vars

CountOf(board, symbol) ==
    Cardinality({rc \in (0..2) \X (0..2) : board[rc[1]][rc[2]] = symbol})

\* C20: on the board of every registered session every non-empty cell
\* holds X or O and there are as many X as O, or one X more; and every
\* step that changes a board writes the symbol of the seat whose turn it
\* was into one empty cell and takes the turn away from that seat.
C20_MovesAlternateWithSeatSymbol ==
    /\ [](\A n \in DOMAIN games :
            games[n].game_state # NoGameState
            => LET board == games[n].game_state[1].board
               IN  /\ \A r \in 0..2, c \in 0..2 : board[r][c] \in {"", "X", "O"}
                   /\ CountOf(board, "X") - CountOf(board, "O") \in {0, 1})
    /\ [][\A n \in DOMAIN games \cap DOMAIN games' :
            (/\ games[n].game_state # NoGameState
             /\ games'[n].game_state # NoGameState
             /\ games'[n].game_state[1].board # games[n].game_state[1].board)
            => LET old == games[n].game_state[1]
                   new == games'[n].game_state[1]
               IN  /\ new.current_player # old.current_player
                   /\ \E r \in 0..2, c \in 0..2 :
                        /\ old.board[r][c] = ""
                        /\ new.board =
                            [old.board EXCEPT ![r][c] = old.current_player]]_vars
\* C21: after every sequence of add_connection and remove_connection calls
\* the server makes (a new connection, the re-registration of a renamed or
\* matched player, the end of a handler), the two maps of the connection
\* manager are mutual inverses: socket_to_player[s].id = p exactly when
\* player_to_socket[p] = s; and neither map has an entry for a connection
\* whose handler has removed it.
C21_MapsMutualInverses ==
    /\ \A s \in DOMAIN socket_to_player :
        /\ socket_to_player[s].id \in DOMAIN player_to_socket
        /\ player_to_socket[socket_to_player[s].id] = s
    /\ \A p \in DOMAIN player_to_socket :
        /\ player_to_socket[p] \in DOMAIN socket_to_player
        /\ socket_to_player[player_to_socket[p]].id = p
    /\ \A s \in Sockets :
        status[s] = "done"
        => /\ s \notin DOMAIN socket_to_player
           /\ \A p \in DOMAIN player_to_socket : player_to_socket[p] # s

\* One connection has been removed, and another has been registered again
\* by find_game with a record that names its match.
C21_Witness ==
    \E s \in Sockets, t \in DOMAIN socket_to_player :
        /\ status[s] = "done"
        /\ socket_to_player[t].game_id = MatchName(0)
        /\ player_to_socket[socket_to_player[t].id] = t
\* The connection of player id takes no send: it is closed, or the id is
\* not registered.
Unreachable(id) ==
    \/ id \notin DOMAIN player_to_socket
    \/ status[player_to_socket[id]] # "open"

\* C22: when a legal move from an open connection is broadcast to a
\* session one of whose members has a closed or unregistered connection,
\* every other member still receives the game_state_update, the member
\* that could not be reached is handled as disconnected (it leaves the
\* session's player list, or the session ends), and no Error is sent to
\* the player who moved.
C22_BroadcastSurvivesClosedMember ==
    [][\A s \in Sockets, n \in DOMAIN games, seat \in 0..1, data \in MoveData :
        (/\ Plays(s, n, seat)
         /\ status[s] = "open"
         /\ FullMove(data)
         /\ ~ MoveIllegal(games[n].game_state[1], data, seat)
         /\ \E p \in Range(games[n].players) : Unreachable(p.id)
         /\ Move(s, data))
        => /\ \A p \in Range(games[n].players) :
                ~ Unreachable(p.id)
                => \E k \in 1..Len(sent') :
                    /\ sent'[k].to = p.id
                    /\ sent'[k].update.update_type = GAME_STATE_UPDATE
           /\ \A p \in Range(games[n].players) :
                Unreachable(p.id)
                => \/ n \notin DOMAIN games'
                   \/ \A q \in Range(games'[n].players) : q.id # p.id
           /\ \A k \in 1..Len(sent') :
                ~ (sent'[k].to = s /\ sent'[k].update.update_type = ERROR)]_vars
\* The handler of t is suspended in the broadcast of a move of session n
\* and has members left to serve.
Broadcasting(t, n) ==
    /\ t \in DOMAIN pending
    /\ pending[t].kind = GAME_STATE_UPDATE
    /\ pending[t].game = n
    /\ pending[t].i <= Len(games[n].players)

\* C23: with the handlers interleaved at their awaits, no move is
\* validated and applied to a session while the broadcast of an earlier
\* move of that session has members left to serve; and no member is sent
\* the update of a move while the update of a move taken earlier is still
\* to be sent to it.
C23_SessionCommandsSerialized ==
    [][\A n \in DOMAIN games :
        /\ (/\ n \in DOMAIN games'
            /\ games[n].game_state # NoGameState
            /\ games'[n].game_state # games[n].game_state)
           => \A t \in Sockets : ~ Broadcasting(t, n)
        /\ \A t \in Sockets :
            (/\ Broadcasting(t, n)
             /\ t \in DOMAIN pending'
             /\ pending'[t] = [pending[t] EXCEPT !.i = @ + 1])
            => \A u \in Sockets \ {t} :
                ~ (/\ Broadcasting(u, n)
                   /\ pending[u].seq < pending[t].seq
                   /\ pending[u].i <= pending[t].i)]_vars
\* C24: with the handlers interleaved at their awaits, in every reachable
\* state (other handlers may be suspended in the middle of their commands)
\* a create_game for a registered name registers nothing and is answered
\* by the name-taken Error, and one for a free name registers the session;
\* a join_game that passes the password check of a session with a free
\* seat takes exactly that seat, and one for a full session changes no
\* session; a find_game consumes queue entries only by pairing the two
\* oldest ids into one new session, each entry once (a finder whose
\* connection is closed, and whose handler ends in this handling, takes
\* one entry of its own id with it).
C24_RegistryMutationsAtomic ==
    \A s \in Sockets :
        Idle(s) =>
        /\ \A name \in UserGameNames, password \in Passwords,
              max_players \in MaxPlayersChoices :
            LET r == aw_create_game(s, name, password, max_players).st
            IN  IF name \in DOMAIN games
                THEN /\ r.games = games
                     /\ status[s] = "open"
                        => r.sent = <<ErrorTo(s, "Game name already exists")>>
                ELSE /\ DOMAIN r.games = DOMAIN games \cup {name}
                     /\ Len(r.games[name].players) = 1
                     /\ r.games[name].players[1].id = s
        /\ \A name \in DOMAIN games, password \in Passwords :
            LET r == aw_join_game(s, name, password).st
                g == games[name]
            IN  (g.password = None \/ g.password = password)
                => IF Len(g.players) >= g.max_players
                   THEN /\ r.games = games
                        /\ status[s] = "open"
                            => r.sent = <<ErrorTo(s, "Game is full")>>
                   ELSE /\ Len(r.games[name].players) = Len(g.players) + 1
                        /\ r.games[name].players[Len(g.players) + 1].id = s
                        /\ \A i \in 1..Len(g.players) :
                            r.games[name].players[i].id = g.players[i].id
        /\ LET r == aw_find_game(s).st
               q == Append(matchmaking_queue, s)
               n == MatchName(Cardinality(DOMAIN games))
           IN  /\ \A m \in DOMAIN games \ {n} :
                    m \in DOMAIN r.games /\ r.games[m] = games[m]
               /\ DOMAIN r.games \subseteq DOMAIN games \cup {n}
               /\ \/ /\ r.matchmaking_queue = q
                     /\ r.games = games
                  \/ /\ status[s] = "closing"
                     /\ r.status[s] = "done"
                     /\ r.matchmaking_queue = RemoveFirst(q, s)
                     /\ r.games = games
                  \/ /\ Len(q) >= 2
                     /\ r.matchmaking_queue = SubSeq(q, 3, Len(q))
                     /\ n \in DOMAIN r.games
                     /\ Len(r.games[n].players) = 2
                     /\ r.games[n].players[1].id = q[1]
                     /\ r.games[n].players[2].id = q[2]
\* While the handler of t, admitted to a session's last seat, is suspended
\* in its loop of GameStarted sends with members left to serve, a
\* join_game of another connection for that session has been refused.
C24_Witness ==
    \E s \in Sockets, t \in DOMAIN pending :
        /\ s # t
        /\ pending[t].kind = JOIN_GAME
        /\ pending[t].i <= Len(games[pending[t].game].players)
        /\ games[pending[t].game].players[Len(games[pending[t].game].players)].id = t
        /\ sent = <<ErrorTo(s, "Game is full")>>
\* C25: in every state of a session that is InGame or EndGame and has a
\* game state, once every update the server has written has arrived and
\* been applied in order, the game_state of the client of every member
\* that is connected has the board, current_player, game_over and winner
\* of the server's game state.
C25_MirrorsAgreeWithServer ==
    \A n \in DOMAIN games :
        (games[n].phase \in {IN_GAME, END_GAME} /\ games[n].game_state # NoGameState)
        => \A p \in Range(games[n].players) :
            (p.id \in DOMAIN client /\ client[p.id].connected)
            => /\ client[p.id].game_state # NoGameState
               /\ LET mine == client[p.id].game_state[1]
                      gs == games[n].game_state[1]
                  IN  /\ mine.board = gs.board
                      /\ mine.current_player = gs.current_player
                      /\ mine.game_over = gs.game_over
                      /\ mine.winner = gs.winner
\* C26: when the client of a lost connection that remembers a session and
\* a name is connected again and the server accepts the join_game it
\* re-issues, the client is sent a game_started update with the board and
\* the turn the session had before the connection was lost and with the
\* symbol of the seat the client had.
C26_RejoinRestoresProjection ==
    [][\A s, t \in Sockets :
        (/\ ClReopen(s, t)
         /\ JoinRefusal(Running, client[s].current_game,
                        client[s].game_password) = "")
        => \E k \in 1..Len(sent') :
            /\ sent'[k].to = t
            /\ sent'[k].update.update_type = GAME_STARTED
            /\ LET data == sent'[k].update.data
                   game == games[client[s].current_game]
               IN  /\ game.game_state # NoGameState
                      => /\ data.board = game.game_state[1].board
                         /\ data.current_player = game.game_state[1].current_player
                   /\ client[s].game_state # NoGameState
                      => data.my_symbol = client[s].game_state[1].my_symbol]_vars
\* C27: for every Command and Update whose data holds JSON primitives,
\* nested mappings, lists and members of an Enum, the record that
\* from_dict builds from to_dict(x), or from the parsed JSON text of
\* to_json(x), is equal to x (by ==), and its command_type or update_type
\* is a member of CommandType or UpdateType.
C27_RoundTrip ==
    codec # NoMessage /\ codec.stage = "back"
    => /\ eq(codec.val, codec.x)
       /\ \A f \in DOMAIN Hints[codec.x.py] :
            Hints[codec.x.py][f] \in DOMAIN EnumValues
            => codec.val.fields[f].py = Hints[codec.x.py][f]

\* An Update whose data holds a list with a member of GamePhase has gone
\* through to_json, json.loads and from_dict, and the list came back with
\* the member's value, a plain str.
C27_Witness ==
    /\ codec # NoMessage
    /\ codec.stage = "back"
    /\ codec.json
    /\ codec.x.py = "Update"
    /\ codec.x.fields.data = PyDict([a |-> PyList(<<Member("GamePhase", IN_GAME)>>),
                                b |-> PyInt(1)])
    /\ codec.val.fields.data = PyDict([a |-> PyList(<<PyStr(IN_GAME)>>), b |-> PyInt(1)])
    /\ codec.val.fields.update_type = Member("UpdateType", GAME_STARTED)
\* C28: when a session is removed, the record the connection manager
\* returns for any registered connection no longer has the removed
\* session's name as its game_id.
C28_EndClearsSessionId ==
    [][\A n \in DOMAIN games :
        n \notin DOMAIN games'
        => \A s \in DOMAIN socket_to_player' :
            socket_to_player'[s].game_id # n]_vars
\* C29: in every reachable state a create_game by an open connection for a
\* name that is not registered registers under that name a session in
\* Lobby with no game_state whose only player is the requester's record,
\* leaves that record with the name as its game_id, and writes exactly one
\* update, GameCreated, to the requester.
C29_CreateRegistersLobby ==
    \A s \in Sockets, name \in UserGameNames, password \in Passwords,
       max_players \in MaxPlayersChoices :
        (status[s] = "open" /\ name \notin DOMAIN games)
        => LET r == on_create_game(s, name, password, max_players)
           IN  /\ DOMAIN r.games = DOMAIN games \cup {name}
               /\ \A n \in DOMAIN games : r.games[n] = games[n]
               /\ r.games[name].name = name
               /\ r.games[name].phase = LOBBY
               /\ r.games[name].game_state = NoGameState
               /\ r.games[name].players = <<r.socket_to_player[s]>>
               /\ r.socket_to_player[s].id = s
               /\ r.socket_to_player[s].game_id = name
               /\ r.sent = <<[update |-> Update(GAME_CREATED, << >>), to |-> s]>>

\* A create_game has just registered g1 and been answered.
C29_Witness ==
    \E s \in Sockets :
        /\ status[s] = "open"
        /\ sent = <<[update |-> Update(GAME_CREATED, << >>), to |-> s]>>
        /\ "g1" \in DOMAIN games
        /\ games["g1"].phase = LOBBY
        /\ games["g1"].game_state = NoGameState
        /\ games["g1"].players = <<socket_to_player[s]>>
        /\ socket_to_player[s].game_id = "g1"
\* C30: every game_state_update or game_started update written to a member
\* of a session carries as its data the session's game state from the
\* perspective of that member's seat.
C30_SendsRecipientProjection ==
    [][\A n \in DOMAIN games', k \in 1..Len(sent') :
        \A i \in 1..Len(games'[n].players) :
            (/\ sent'[k].update.update_type \in {GAME_STATE_UPDATE, GAME_STARTED}
             /\ sent'[k].to = games'[n].players[i].id
             /\ games'[n].game_state # NoGameState)
            => sent'[k].update.data =
                    get_player_perspective(games'[n].game_state[1], i - 1)]_vars
\* C35: no registered session lists the same player id twice.
C35_NoIdTwiceInSession ==
    \A n \in DOMAIN games :
        \A i, j \in 1..Len(games[n].players) :
            i # j => games[n].players[i].id # games[n].players[j].id
\* C36: no player id is listed by two registered sessions.
C36_MemberOfOneSession ==
    \A n, m \in DOMAIN games :
        n # m => \A p \in Range(games[n].players), q \in Range(games[m].players) :
                    p.id # q.id
\* C37: in every state between two events, the record the connection
\* manager holds for a registered connection has game_id = S exactly when
\* S is a registered session whose player list holds that player's id.
C37_MembershipAgreesWithGameId ==
    \A s \in DOMAIN socket_to_player :
        /\ socket_to_player[s].game_id # None
            => /\ socket_to_player[s].game_id \in DOMAIN games
               /\ \E p \in Range(games[socket_to_player[s].game_id].players) :
                    p.id = socket_to_player[s].id
        /\ \A n \in DOMAIN games :
            (\E p \in Range(games[n].players) : p.id = socket_to_player[s].id)
            => socket_to_player[s].game_id = n
\* C38: whenever a connection whose handler reads messages has a current
\* record whose game_id names a registered session, that record is found
\* in the session's player list, so that game.players.index(player) of a
\* make_move or a projection does not fail.
C38_SeatResolves ==
    \A s \in DOMAIN socket_to_player :
        (Serving(s) /\ socket_to_player[s].game_id \in DOMAIN games)
        => IndexOf(games[socket_to_player[s].game_id].players,
                   socket_to_player[s]) # 0
\* C39: the name find_game generates for a matchmade session, match_ with
\* the number of registered sessions, is never the name of a registered
\* session.
C39_MatchNameIsFree ==
    MatchName(Cardinality(DOMAIN games)) \notin DOMAIN games
C31_SendRemembersOrDoesNothing ==
    app # NoApp
    => \A cmd \in AppCommands :
        LET r == send(app, cmd)
        IN  /\ ~ app.connected
                => /\ r.written = << >>
                   /\ r.current_game = app.current_game
                   /\ r.player_name = app.player_name
                   /\ r.game_password = app.game_password
                   /\ r.conn = app.conn
            /\ (app.connected /\ cmd.command_type \in {CREATE_GAME, JOIN_GAME})
                => /\ r.current_game = Get(cmd.data, "game_name", None)
                   /\ r.player_name = Get(cmd.data, "player_name", None)
                   /\ r.game_password = Get(cmd.data, "password", None)
                   /\ app.conn = "open" => r.written = <<cmd>>

\* A client that remembers the create_game it sent has lost its
\* connection and has just called send: nothing was written.
C31_Witness ==
    /\ app # NoApp
    /\ ~ app.connected
    /\ app.error = "Not connected"
    /\ app.written = << >>
    /\ app.current_game = "g1"
    /\ app.player_name = "n1"
    /\ app.game_password = "pw"
\* The delay reconnect() sleeps before attempt k of a run of failed
\* attempts: retry_delay, doubled per attempt, at most max_delay.
RECURSIVE Backoff(_)
Backoff(k) ==
    IF k = 1 THEN retry_delay
    ELSE IF 2 * Backoff(k - 1) < max_delay THEN 2 * Backoff(k - 1) ELSE max_delay

\* C32: the delays slept since the connection was lost, one before each
\* attempt to connect, are 5, 10, 20, 30, 30, ...
C32_BackoffDoubles ==
    app # NoApp => \A k \in 1..Len(app.waits) : app.waits[k] = Backoff(k)

\* C40: a close() of a connected client writes the disconnect command,
\* clears the remembered game, name and password, closes the connection
\* and leaves connected false, so that no later close event finds a
\* remembered game.
C40_CloseForgetsAndCloses ==
    [][(AppClose /\ app.ws # None /\ app.connected)
        => /\ app'.written = <<Command("disconnect", << >>)>>
           /\ app'.current_game = None
           /\ app'.player_name = None
           /\ app'.game_password = None
           /\ app'.conn = "none"
           /\ ~ app'.connected]_vars

\* C33: a text that is no well-formed command (no JSON, an unknown
\* command_type, a missing command_type, a missing game_name, make_move
\* without coordinates), received on an open connection, leaves the
\* connection open and registered and changes neither the connection maps
\* nor the games nor the matchmaking queue.
C33_MalformedChangesNothing ==
    [][\A s \in Sockets : \A text \in Malformed(s) :
        (status[s] = "open" /\ Receive(s, text))
        => /\ status'[s] = "open"
           /\ socket_to_player' = socket_to_player
           /\ player_to_socket' = player_to_socket
           /\ games' = games
           /\ matchmaking_queue' = matchmaking_queue]_vars

====
